---- MODULE Spec2Model ----
(***************************************************************************)
(* Verification model of the Celestial obfuscator: the entropy oracle,     *)
(* the rewriting engines (rename, string encryption, control flow, dead    *)
(* code, virtual machine) and the driver Obfuscator.obfuscate.             *)
(*                                                                         *)
(* Text is a sequence of UTF-16 code units (what charCodeAt returns).      *)
(* A 32-bit integer is a pair <<hi, lo>> of 16-bit halves, so every        *)
(* intermediate value of the arithmetic stays below 2^31.                  *)
(***************************************************************************)
EXTENDS Integers, Sequences, FiniteSets, TLC

\* ------------------------------------------------------------------------
\* Bit arithmetic of the JavaScript operators ^, <<, >>, >>> on int32
\* ------------------------------------------------------------------------

\* a ^ b and a & b on 16-bit values, bit by bit in groups of four
Xor4(a, b) ==
  ((a + b) % 2) + 2 * (((a \div 2) + (b \div 2)) % 2)
  + 4 * (((a \div 4) + (b \div 4)) % 2) + 8 * (((a \div 8) + (b \div 8)) % 2)

BitXor(a, b) ==
  Xor4(a % 16, b % 16) + 16 * Xor4((a \div 16) % 16, (b \div 16) % 16)
  + 256 * Xor4((a \div 256) % 16, (b \div 256) % 16)
  + 4096 * Xor4(a \div 4096, b \div 4096)

And4(a, b) ==
  ((a % 2) * (b % 2)) + 2 * (((a \div 2) % 2) * ((b \div 2) % 2))
  + 4 * (((a \div 4) % 2) * ((b \div 4) % 2))
  + 8 * (((a \div 8) % 2) * ((b \div 8) % 2))

BitAnd(a, b) ==
  And4(a % 16, b % 16) + 16 * And4((a \div 16) % 16, (b \div 16) % 16)
  + 256 * And4((a \div 256) % 16, (b \div 256) % 16)
  + 4096 * And4(a \div 4096, b \div 4096)

Xor32(x, y) == <<BitXor(x[1], y[1]), BitXor(x[2], y[2])>>

\* (x << k) on int32, 0 < k < 16
Shl32(x, k) ==
  LET p == 2 ^ k
      q == 2 ^ (16 - k)
  IN  <<(x[1] % q) * p + (x[2] \div q), (x[2] % q) * p>>

\* (x >>> 17): the unsigned shift, zeros fill the top 17 bits
Shr17(x) == <<0, x[1] \div 2>>

\* (x >> 17) on int32: arithmetic shift, the sign bit fills the top 17 bits
Sar17(x) ==
  LET sign == x[1] \div 32768
  IN  <<sign * 65535, sign * 32768 + (x[1] \div 2)>>

\* unsigned comparison of two 32-bit values
Geq32(x, y) == x[1] > y[1] \/ (x[1] = y[1] /\ x[2] >= y[2])

\* ------------------------------------------------------------------------
\* EntropyGenerator (the oracle)
\* ------------------------------------------------------------------------

\* setSeed(seed): state := seed. The first ^= of random() applies ToInt32, so
\* only the low 32 bits of the seed matter.
setSeed(seed) == seed

\* Results of oracle calls are records [v |-> value returned, s |-> new state].
\* The methods that take or pass on the oracle state are functions of it.

Word32 == (0..65535) \X (0..65535)          \* a 32-bit state
Text   == Seq(0..65535)                     \* a string: its UTF-16 code units
Drawn     == [v : Word32, s : Word32]       \* result of random()
IntDrawn  == [v : Int,    s : Word32]       \* result of randomInt()
TextDrawn == [v : Text,   s : Word32]       \* result of a method returning text

\* random(): the three xorshift steps; v is the numerator u of the returned
\* fraction u / 0xFFFFFFFF (u = state >>> 0), s the new state.
XorShl(s, k) == Xor32(s, Shl32(s, k))
XorSar17(s)  == Xor32(s, Sar17(s))
Returns(u)   == [v |-> u, s |-> u]

random[s \in Word32] == Returns(XorShl(XorSar17(XorShl(s, 13)), 5))

\* u / 0xFFFFFFFF > 0.5, > 0.7, > 0.9   (u >= 0x80000000, 0xB3333333, 0xE6666666)
Above05(u) == Geq32(u, <<32768, 0>>)
Above07(u) == Geq32(u, <<45875, 13107>>)
Above09(u) == Geq32(u, <<58982, 26214>>)

\* a * n for 16-bit a and n <= 65536, as <<high half, low half>>
Mul16(a, n) ==
  <<((a * (n \div 256)) \div 256)
      + ((((a * (n \div 256)) % 256) * 256 + a * (n % 256)) \div 65536),
    (((a * (n \div 256)) % 256) * 256 + a * (n % 256)) % 65536>>

\* floor(x / 0xFFFFFFFF) for x = (hi * 2^16 + lo) with hi, lo 32-bit products
QuotientLimbs(hi, lo) ==
  LET mid == hi[2] + lo[1]
      q0  == hi[1] + (mid \div 65536)           \* floor(x / 2^32)
  IN  IF (mid % 65536) = 65535 /\ lo[2] + q0 >= 65535 THEN q0 + 1 ELSE q0

\* the pairs <<n, u>>, n <= 1001 or n = 61440, where u * n is an exact multiple
\* of 0xFFFFFFFF and the double (u / 0xFFFFFFFF) * n is rounded to just below
\* that integer
RoundedDown ==
  {<<51, <<39835, 39835>>>>, <<75, <<48059, 48059>>>>,
   <<85, <<37779, 37779>>>>, <<85, <<43947, 43947>>>>,
   <<102, <<39835, 39835>>>>, <<150, <<48059, 48059>>>>,
   <<153, <<39835, 39835>>>>, <<153, <<50115, 50115>>>>,
   <<165, <<48059, 48059>>>>, <<170, <<37779, 37779>>>>,
   <<170, <<43947, 43947>>>>, <<204, <<39835, 39835>>>>,
   <<285, <<48059, 48059>>>>, <<289, <<50115, 50115>>>>,
   <<300, <<48059, 48059>>>>, <<306, <<39835, 39835>>>>,
   <<306, <<50115, 50115>>>>, <<315, <<48059, 48059>>>>,
   <<323, <<50115, 50115>>>>, <<330, <<48059, 48059>>>>,
   <<340, <<37779, 37779>>>>, <<340, <<43947, 43947>>>>,
   <<345, <<48059, 48059>>>>, <<357, <<39835, 39835>>>>,
   <<408, <<39835, 39835>>>>, <<425, <<17733, 17733>>>>,
   <<425, <<35466, 35466>>>>, <<425, <<37779, 37779>>>>,
   <<459, <<16705, 16705>>>>, <<459, <<33410, 33410>>>>,
   <<555, <<48059, 48059>>>>, <<561, <<50115, 50115>>>>,
   <<570, <<48059, 48059>>>>, <<578, <<50115, 50115>>>>,
   <<585, <<48059, 48059>>>>, <<595, <<37779, 37779>>>>,
   <<595, <<43947, 43947>>>>, <<595, <<50115, 50115>>>>,
   <<595, <<56283, 56283>>>>, <<600, <<48059, 48059>>>>,
   <<612, <<39835, 39835>>>>, <<612, <<50115, 50115>>>>,
   <<615, <<48059, 48059>>>>, <<629, <<50115, 50115>>>>,
   <<630, <<48059, 48059>>>>, <<645, <<48059, 48059>>>>,
   <<646, <<50115, 50115>>>>, <<660, <<48059, 48059>>>>,
   <<663, <<39835, 39835>>>>, <<663, <<50115, 50115>>>>,
   <<675, <<48059, 48059>>>>, <<680, <<37779, 37779>>>>,
   <<680, <<43947, 43947>>>>, <<690, <<48059, 48059>>>>,
   <<714, <<39835, 39835>>>>, <<765, <<33667, 33667>>>>,
   <<765, <<35723, 35723>>>>, <<765, <<37779, 37779>>>>,
   <<765, <<39835, 39835>>>>, <<765, <<41891, 41891>>>>,
   <<771, <<8415, 8415>>>>, <<771, <<8925, 8925>>>>, <<771, <<9435, 9435>>>>,
   <<771, <<9945, 9945>>>>, <<771, <<10455, 10455>>>>,
   <<771, <<16745, 16745>>>>, <<771, <<16830, 16830>>>>,
   <<771, <<17765, 17765>>>>, <<771, <<17850, 17850>>>>,
   <<771, <<18785, 18785>>>>, <<771, <<18870, 18870>>>>,
   <<771, <<19805, 19805>>>>, <<771, <<19890, 19890>>>>,
   <<771, <<20825, 20825>>>>, <<771, <<20910, 20910>>>>,
   <<771, <<33490, 33490>>>>, <<771, <<33575, 33575>>>>,
   <<771, <<33660, 33660>>>>, <<771, <<33745, 33745>>>>,
   <<771, <<35530, 35530>>>>, <<771, <<35615, 35615>>>>,
   <<771, <<35700, 35700>>>>, <<771, <<35785, 35785>>>>,
   <<771, <<37570, 37570>>>>, <<771, <<37655, 37655>>>>,
   <<771, <<37740, 37740>>>>, <<771, <<37825, 37825>>>>,
   <<771, <<39610, 39610>>>>, <<771, <<39695, 39695>>>>,
   <<771, <<39780, 39780>>>>, <<771, <<39865, 39865>>>>,
   <<771, <<41650, 41650>>>>, <<771, <<41735, 41735>>>>,
   <<771, <<41820, 41820>>>>, <<771, <<41905, 41905>>>>,
   <<816, <<39835, 39835>>>>, <<850, <<17733, 17733>>>>,
   <<850, <<35466, 35466>>>>, <<850, <<37779, 37779>>>>,
   <<867, <<16705, 16705>>>>, <<867, <<33410, 33410>>>>,
   <<918, <<16705, 16705>>>>, <<918, <<33410, 33410>>>>,
   <<935, <<17733, 17733>>>>, <<935, <<35466, 35466>>>>,
   <<969, <<16705, 16705>>>>, <<969, <<33410, 33410>>>>}

\* Math.floor((u / 0xFFFFFFFF) * n): the floor of the exact quotient, less one
\* where the double arithmetic rounds below an integer
ScaleFloor(u, n) ==
  QuotientLimbs(Mul16(u[1], n), Mul16(u[2], n))
    - (IF <<n, u>> \in RoundedDown THEN 1 ELSE 0)

IntFrom[r \in Drawn, min \in Int, max \in Int] ==
  [v |-> ScaleFloor(r.v, max - min + 1) + min, s |-> r.s]

randomInt[s \in Word32, min \in Int, max \in Int] == IntFrom[random[s], min, max]

\* randomInt(0, 0xFFFFFFFF): Math.floor((u / 0xFFFFFFFF) * 2^32) is u, and
\* u + 1 from u = 0xFFFFFC00 on, where the quotient is rounded up to the next
\* multiple of 2^-32; v is <<high half, low half>> with a low half of 65536
\* standing for the carry
WordFrom(r) ==
  [v |-> IF Geq32(r.v, <<65535, 64512>>) THEN <<r.v[1], r.v[2] + 1>> ELSE r.v,
   s |-> r.s]

randomWord[s \in Word32] == WordFrom(random[s])

\* arr[randomInt(0, arr.length - 1)]; an index past the end reads undefined
Undefined == <<117, 110, 100, 101, 102, 105, 110, 101, 100>>

At(arr, i) == IF i + 1 \in DOMAIN arr THEN arr[i + 1] ELSE Undefined

ChoiceFrom(r, arr) == [v |-> At(arr, r.v), s |-> r.s]

randomChoice(s, arr) == ChoiceFrom(randomInt[s, 0, Len(arr) - 1], arr)

\* the 51 code units of the session-id alphabet
SessionChars ==
  <<287, 376, 339, 287, 376, 339, 8218, 287, 376, 339, 402, 287, 376, 339,
    8222, 287, 376, 339, 8230, 287, 376, 339, 8224, 287, 376, 339, 8225, 226,
    353, 8226, 226, 353, 8211, 226, 353, 8212, 226, 353, 732, 226, 353, 8482,
    226, 353, 353, 226, 353, 8250, 226, 353, 339>>

\* initGrammars(): the three naming grammars
grammars == <<
  [prefix |-> <<<<201, 184>>, <<207, 376>>, <<207, 8482>>, <<207, 8212>>,
                <<207, 732>>>>,
   suffix |-> <<<<234>>, <<234, 8216>>, <<234, 8220>>, <<234, 8226>>,
                <<234, 8212>>>>,
   charset |->
      <<206, 177, 206, 178, 206, 179, 206, 180, 206, 181, 206, 182, 206, 183,
        206, 184, 206, 185, 206, 186, 206, 187, 206, 188, 206, 189, 206, 190,
        206, 191, 207, 8364, 207, 207, 402, 207, 8222, 207, 8230, 207, 8224,
        207, 8225, 207, 710, 207, 8240>>,
   min |-> 3, max |-> 8],
  [prefix |-> <<<<206, 8221>>, <<206, 732>>, <<206, 8250>>, <<206>>,
                <<206, 160>>>>,
   suffix |-> <<<<226, 402, 8212>>, <<226, 402, 8211>>, <<226, 402, 8217>>,
                <<226, 402, 8226>>, <<226, 402, 8221>>>>,
   charset |->
      <<226, 710, 8364, 226, 710, 402, 226, 710, 710, 226, 710, 8240, 226,
        710, 226, 710, 8216, 226, 710, 353, 226, 710, 8250, 226, 710, 339,
        226, 710>>,
   min |-> 4, max |-> 12],
  [prefix |-> <<<<226, 190>>, <<226, 191>>, <<226>>, <<226, 8218>>,
                <<226, 402>>>>,
   suffix |-> <<<<226, 163>>, <<226, 164>>, <<226, 165>>, <<226, 166>>,
                <<226, 167>>>>,
   charset |->
      <<226, 186, 226, 181, 226, 180, 226, 183, 226, 184, 226, 185, 226, 186,
        226, 187, 226, 188, 226, 189, 226, 190, 226, 191>>,
   min |-> 2, max |-> 6] >>

\* String(n) for n >= 0: the decimal digits
RECURSIVE NumberToString(_)
NumberToString(n) ==
  IF n < 10 THEN <<48 + n>> ELSE NumberToString(n \div 10) \o <<48 + (n % 10)>>

\* String(n) for n = hi * 2^16 + lo, in two groups of decimal digits
LowDigits(n) ==
  <<48 + (n \div 1000), 48 + ((n \div 100) % 10), 48 + ((n \div 10) % 10),
    48 + (n % 10)>>

WordToString(w) ==
  IF w[1] * 6 + ((w[1] * 5536 + w[2]) \div 10000) = 0
  THEN NumberToString(w[2])
  ELSE NumberToString(w[1] * 6 + ((w[1] * 5536 + w[2]) \div 10000))
       \o LowDigits((w[1] * 5536 + w[2]) % 10000)

\* c.toUpperCase() on one code unit (ASCII, Latin-1 and the letters of the
\* palettes; every other code unit of the palettes has no upper-case form)
toUpperCase(c) ==
  IF c \in 97..122 \/ (c \in 224..254 /\ c # 247) THEN c - 32
  ELSE IF c = 181 THEN 924
  ELSE IF c = 255 THEN 376
  ELSE IF c \in {287, 339, 353, 402} THEN c - 1
  ELSE c

Reverse(str) == [i \in 1..Len(str) |-> str[Len(str) + 1 - i]]

\* the states of the oracle before and after n successive calls of random():
\* <<s, s after one call, ..., s after n calls>>; the run of calls is split in
\* halves so that long runs evaluate without deep nesting
StatesJoin(left, right) == left \o Tail(right)

States[s \in Word32, n \in Nat] ==
  IF n = 0 THEN <<s>>
  ELSE IF n = 1 THEN <<s, random[s].s>>
  ELSE StatesJoin(States[s, n \div 2],
                  States[States[s, n \div 2][(n \div 2) + 1], n - (n \div 2)])

\* s.replace(/./g, c => this.random() > 0.5 ? c : c.toUpperCase())
CaseWith(st, str) ==
  [v |-> [i \in 1..Len(str) |->
            IF Above05(st[i + 1]) THEN str[i] ELSE toUpperCase(str[i])],
   s |-> st[Len(str) + 1]]

RandomCase(s, str) == CaseWith(States[s, Len(str)], str)

\* s => s + 'ê‰' + this.randomInt(100, 999)
AppendNumber(str, r) ==
  [v |-> str \o <<234, 8240>> \o NumberToString(r.v), s |-> r.s]

\* transforms[t.v](str) of applyTransforms, t the draw that chose it
ApplyOneTransform[t \in IntDrawn, str \in Text] ==
  IF t.v = 0 THEN [v |-> Reverse(str), s |-> t.s]
  ELSE IF t.v = 1 THEN RandomCase(t.s, str)
  ELSE IF t.v = 2 THEN AppendNumber(str, randomInt[t.s, 100, 999])
  ELSE [v |-> <<226, 184, 168>> \o str \o <<226, 184, 169>>, s |-> t.s]

\* for (i < numTransforms) result = transforms[randomInt(0, 3)](result)
TransformLoop[a \in TextDrawn, k \in Nat] ==
  IF k = 0 THEN a
  ELSE TransformLoop[ApplyOneTransform[randomInt[a.s, 0, 3], a.v], k - 1]

TransformTimes[numTransforms \in IntDrawn, str \in Text] ==
  TransformLoop[[v |-> str, s |-> numTransforms.s], numTransforms.v]

applyTransforms[s \in Word32, str \in Text] ==
  TransformTimes[randomInt[s, 1, 3], str]

\* the loop  name += grammar.charset[randomInt(0, charset.length - 1)]
\* (each randomInt is one call of random(); random() < 1, so the index is
\* inside the charset)
CharsetWith(st, charset, k) ==
  [v |-> [i \in 1..k |-> charset[ScaleFloor(st[i + 1], Len(charset)) + 1]],
   s |-> st[k + 1]]

CharsetLoop(s, charset, k) == CharsetWith(States[s, k], charset, k)

\* generateIdentifier(), one definition per statement; g is the index of the
\* grammar chosen
IdentFinish[name \in Text, coin \in Drawn] ==
  IF Above05(coin.v) THEN applyTransforms[coin.s, name]
  ELSE [v |-> name, s |-> coin.s]

IdentSuffix[name \in Text, suffix \in TextDrawn] ==
  IdentFinish[name \o suffix.v, random[suffix.s]]

IdentBody[g \in DOMAIN grammars, prefix \in Text, body \in TextDrawn] ==
  IdentSuffix[prefix \o body.v, randomChoice(body.s, grammars[g].suffix)]

IdentPrefix[g \in DOMAIN grammars, length \in Int, prefix \in TextDrawn] ==
  IdentBody[g, prefix.v, CharsetLoop(prefix.s, grammars[g].charset, length)]

IdentLength[g \in DOMAIN grammars, length \in IntDrawn] ==
  IdentPrefix[g, length.v, randomChoice(length.s, grammars[g].prefix)]

IdentGrammar[g \in DOMAIN grammars, s \in Word32] ==
  IdentLength[g, randomInt[s, grammars[g].min, grammars[g].max]]

IdentStart[g \in IntDrawn] == IdentGrammar[g.v + 1, g.s]

generateIdentifier[s \in Word32] ==
  IdentStart[randomInt[s, 0, Len(grammars) - 1]]

\* generateSessionId(): eight picks chars[Math.floor(random() * chars.length)]
SessionWith(st) ==
  [v |-> [i \in 1..8 |-> SessionChars[ScaleFloor(st[i + 1], Len(SessionChars)) + 1]],
   s |-> st[9]]

generateSessionId[s \in Word32] == SessionWith(States[s, 8])

\* ------------------------------------------------------------------------
\* State
\* ------------------------------------------------------------------------

VARIABLES
  entropy,          \* EntropyGenerator.state of the oracle under test
  issued,           \* history: the identifiers generateIdentifier has returned
  pc,               \* position of the component under test
  program,          \* the node tree handed to the pass (kept for comparison)
  ast,              \* the node tree the pass mutates in place
  mapping,          \* IdentifierRenamer.mapping
  predicateCount,   \* ControlFlowObfuscator.predicateCount
  injectionPoints,  \* DeadCodeInjector.injectionPoints
  opcodes,          \* VirtualMachine.opcodes, in the order of the keys
  registers,        \* VirtualMachine.registers
  emitted,          \* the parts of the text generateVMCode returned
  mem,              \* the emitted script's vm.mem
  ip,               \* the emitted script's vm.ip
  globals,          \* the global variables the emitted script has assigned
  decoded,          \* what running each emitted decryptor text gives
  source,           \* the code handed to Obfuscator.obfuscate
  options,          \* the options handed to Obfuscator.obfuscate
  obfuscators,      \* two Obfuscator objects: {entropy, sessionId} and the
                    \* value obfuscate returned
  request,          \* the HTTP request the router is serving
  response,         \* the status sent and the calls of obfuscate made for it
  tree,             \* what LuauParser.parse gave, or the tree a caller built
  printed,          \* the text generateCode returned for the tree
  reparsed,         \* what parse gave for the printed text
  sanitized,        \* what sanitizeInput returned for the source
  handlers,         \* the requests in flight: position, the oracle used, the promise
  reads,            \* history: the oracle fields read, by whom and who wrote them
  writers,          \* history: who wrote each oracle field last
  results,          \* the results array of runTests
  invoked,          \* the last call made on the oracle and the value it returned
  draws,            \* how many times the oracle has been called
  luaState,         \* the value of the dispatcher's state variable while the emitted loop runs
  executed,         \* the cases the emitted loop has called, in order
  plain,            \* the bytes given to applyNonLinearTransform
  cipher,           \* the bytes applyNonLinearTransform returned
  recovered,        \* the bytes the three inverse steps of the decoder give for them
  injection,        \* what generateInjection returned or raised last
  clock,            \* Date.now(), in milliseconds
  requestCache,     \* SecurityMiddleware.requestCache: request hash to {timestamp, response}
  requestTimestamps,\* SecurityMiddleware.requestTimestamps: key to the time of the last request
  sent,             \* request hash to the body of the reply whose result was cached for it
  reply             \* the last reply sent: its status, its body, who sent it and how old the cache entry it used was

vars == <<entropy, issued, pc, program, ast, mapping, predicateCount,
         injectionPoints, opcodes, registers, emitted, mem, ip, globals,
         decoded, source, options, obfuscators, request, response, tree,
         printed, reparsed, sanitized, handlers, reads, writers, results,
         invoked, draws, luaState, executed, plain, cipher, recovered,
         injection, clock, requestCache, requestTimestamps, sent, reply>>

renVars  == <<issued, mapping>>
flowVars == <<predicateCount>>
deadVars == <<injectionPoints>>
vmVars   == <<opcodes, registers, emitted, mem, ip, globals>>
encVars  == <<decoded>>
obfVars  == <<source, options, obfuscators>>
webVars  == <<request, response>>
parseVars == <<tree, printed, reparsed>>
sanitizeVars == <<sanitized>>
shareVars == <<handlers, reads, writers>>
testsVars == <<results>>
oracleVars == <<invoked, draws>>
dispatchVars == <<luaState, executed>>
bytesVars == <<plain, cipher, recovered>>
injectVars == <<injection>>
cacheVars == <<clock, requestCache, requestTimestamps, sent, reply>>

\* the components a specification leaves as constructed
IdleRen  == issued = <<>> /\ mapping = <<>>
IdleFlow == predicateCount = 0
IdleDead == injectionPoints = <<>>
IdleVM   ==
  /\ opcodes = <<>>
  /\ registers = <<>>
  /\ emitted = <<>>
  /\ mem = <<>>
  /\ ip = 0
  /\ globals = <<>>

IdleEnc  == decoded = <<>>
IdleObf  == source = <<>> /\ options = <<>> /\ obfuscators = <<>>
IdleWeb  == request = <<>> /\ response = <<>>
IdleParse == tree = <<>> /\ printed = <<>> /\ reparsed = <<>>
IdleSanitize == sanitized = <<>>
IdleShare == handlers = <<>> /\ reads = {} /\ writers = <<>>
IdleTests == results = <<>>
IdleOracle == invoked = <<>> /\ draws = 0
IdleDispatch == luaState = 0 /\ executed = <<>>
IdleBytes == plain = <<>> /\ cipher = <<>> /\ recovered = <<>>
IdleInject == injection = <<>>
IdleCache == clock = 0 /\ requestCache = <<>> /\ requestTimestamps = <<>> /\ sent = <<>> /\ reply = <<>>

notRen  == <<flowVars, deadVars, vmVars, encVars, obfVars, webVars,
            parseVars, sanitizeVars, shareVars, testsVars, oracleVars, dispatchVars, bytesVars, injectVars, cacheVars>>
notFlow == <<renVars, deadVars, vmVars, encVars, obfVars, webVars, parseVars,
            sanitizeVars, shareVars, testsVars, oracleVars, dispatchVars, bytesVars, injectVars, cacheVars>>
notDead == <<renVars, flowVars, vmVars, encVars, obfVars, webVars, parseVars,
            sanitizeVars, shareVars, testsVars, oracleVars, dispatchVars, bytesVars, injectVars, cacheVars>>
notVM   == <<renVars, flowVars, deadVars, encVars, obfVars, webVars,
            parseVars, sanitizeVars, shareVars, testsVars, oracleVars, dispatchVars, bytesVars, injectVars, cacheVars>>
notEnc  == <<renVars, flowVars, deadVars, vmVars, obfVars, webVars,
            parseVars, sanitizeVars, shareVars, testsVars, oracleVars, dispatchVars, bytesVars, injectVars, cacheVars>>
notObf  == <<renVars, flowVars, deadVars, vmVars, encVars, webVars,
            parseVars, sanitizeVars, shareVars, testsVars, oracleVars, dispatchVars, bytesVars, injectVars, cacheVars>>
notWeb  == <<renVars, flowVars, deadVars, vmVars, encVars, obfVars,
            parseVars, sanitizeVars, shareVars, testsVars, oracleVars, dispatchVars, bytesVars, injectVars, cacheVars>>
notParse == <<renVars, flowVars, deadVars, vmVars, encVars, obfVars, webVars,
            sanitizeVars, shareVars, testsVars, oracleVars, dispatchVars, bytesVars, injectVars, cacheVars>>
notSanitize == <<renVars, flowVars, deadVars, vmVars, encVars, obfVars,
            webVars, parseVars, shareVars, testsVars, oracleVars, dispatchVars, bytesVars, injectVars, cacheVars>>
notShare == <<renVars, flowVars, deadVars, vmVars, encVars, obfVars, webVars,
            parseVars, sanitizeVars, testsVars, oracleVars, dispatchVars, bytesVars, injectVars, cacheVars>>
notTests == <<renVars, flowVars, deadVars, vmVars, encVars, obfVars, webVars,
            parseVars, sanitizeVars, shareVars, oracleVars, dispatchVars, bytesVars, injectVars, cacheVars>>
notOracle == <<renVars, flowVars, deadVars, vmVars, encVars, obfVars,
            webVars, parseVars, sanitizeVars, shareVars, testsVars, dispatchVars, bytesVars, injectVars, cacheVars>>
notDispatch == <<renVars, flowVars, deadVars, vmVars, encVars, obfVars,
            webVars, parseVars, sanitizeVars, shareVars, testsVars, oracleVars, bytesVars, injectVars, cacheVars>>
notBytes == <<renVars, flowVars, deadVars, vmVars, encVars, obfVars, webVars,
            parseVars, sanitizeVars, shareVars, testsVars, oracleVars, dispatchVars, injectVars, cacheVars>>
notInject == <<renVars, flowVars, deadVars, vmVars, encVars, obfVars,
            webVars, parseVars, sanitizeVars, shareVars, testsVars, oracleVars, dispatchVars, bytesVars, cacheVars>>
notCache == <<renVars, flowVars, deadVars, vmVars, encVars, obfVars, webVars,
            parseVars, sanitizeVars, shareVars, testsVars, oracleVars, dispatchVars, bytesVars, injectVars>>

\* seeds an oracle may be given (Date.now() ^ Math.random() * 0xFFFFFFFF can
\* be any 32-bit value); 195572 = <<2, 64500>>
Seeds == {<<0, 1>>, <<0, 42>>, <<2, 64500>>, <<32768, 7>>}

\* text search: str.includes(pat)
Includes(str, pat) ==
  \E i \in 1..(Len(str) - Len(pat) + 1) : SubSeq(str, i, i + Len(pat) - 1) = pat

\* ------------------------------------------------------------------------
\* Node trees of the engines: {type, value, children}
\* decl is an annotation of the input, not read by any engine: the number of
\* the declaration (local, parameter, for-variable) an identifier resolves to
\* under lexical scoping, 0 for an unbound (global or built-in) name.
\* ------------------------------------------------------------------------

\* node.condition: absent, or the text of a source condition
NoCondition       == [kind |-> "undefined"]
SourceCondition(text) == [kind |-> "source", text |-> text]

Node(t, ch)   == [type |-> t, value |-> <<>>, children |-> ch, decl |-> 0,
                  condition |-> NoCondition]
Leaf(t, v)    == [type |-> t, value |-> v, children |-> <<>>, decl |-> 0,
                  condition |-> NoCondition]
Ident(v, d)   == [type |-> "identifier", value |-> v, children |-> <<>>,
                  decl |-> d, condition |-> NoCondition]
Cond(t, text, ch) == [type |-> t, value |-> <<>>, children |-> ch, decl |-> 0,
                      condition |-> SourceCondition(text)]

N_x     == <<120>>
N_y     == <<121>>
N_a     == <<97>>
N_b     == <<98>>
N_f     == <<102>>
N_i     == <<105>>
N_print == <<112, 114, 105, 110, 116>>
N_math  == <<109, 97, 116, 104>>
N_end   == <<101, 110, 100>>

\* local x = 1  do local x = 2 print(x) end  print(x)
ProgShadow ==
  Node("block", <<
    Node("local", <<Ident(N_x, 1), Leaf("number", <<49>>)>>),
    Node("block", <<
      Node("local", <<Ident(N_x, 2), Leaf("number", <<50>>)>>),
      Node("call", <<Ident(N_print, 0), Ident(N_x, 2)>>)>>),
    Node("call", <<Ident(N_print, 0), Ident(N_x, 1)>>)>>)

\* local x = 1 return x
ProgLocal ==
  Node("block", <<
    Node("local", <<Ident(N_x, 1), Leaf("number", <<49>>)>>),
    Node("return", <<Ident(N_x, 1)>>)>>)

\* function f(a, b) return a + b end  return f(2, 3)
ProgFunction ==
  Node("block", <<
    Node("function", <<Ident(N_f, 0), Ident(N_a, 1), Ident(N_b, 2),
      Node("return", <<Ident(N_a, 1), Ident(N_b, 2)>>)>>),
    Node("return", <<Node("call", <<Ident(N_f, 0), Leaf("number", <<50>>),
                                    Leaf("number", <<51>>)>>)>>)>>)

\* for i = 1, 3 do print(i) end
ProgFor ==
  Node("block", <<
    Node("for", <<Ident(N_i, 1), Leaf("number", <<49>>),
      Leaf("number", <<51>>),
      Node("block", <<Node("call", <<Ident(N_print, 0), Ident(N_i, 1)>>)>>)>>)>>)

\* local y = math  local x = y  print(x, y)
ProgGlobals ==
  Node("block", <<
    Node("local", <<Ident(N_y, 1), Ident(N_math, 0)>>),
    Node("local", <<Ident(N_x, 2), Ident(N_y, 1)>>),
    Node("call", <<Ident(N_print, 0), Ident(N_x, 2), Ident(N_y, 1)>>)>>)

RenamePrograms == {ProgShadow, ProgLocal, ProgFunction, ProgFor, ProgGlobals}

\* the nodes of a tree in the order the passes visit them
RECURSIVE Nodes(_)
RECURSIVE NodesOfAll(_)
Nodes(node) == <<node>> \o NodesOfAll(node.children)
NodesOfAll(children) ==
  IF children = <<>> THEN <<>>
  ELSE Nodes(Head(children)) \o NodesOfAll(Tail(children))

\* ------------------------------------------------------------------------
\* IdentifierRenamer
\* ------------------------------------------------------------------------

\* new Set(['local', 'function', 'if', 'then', 'else', 'end'])
reserved ==
  {<<108, 111, 99, 97, 108>>, <<102, 117, 110, 99, 116, 105, 111, 110>>,
   <<105, 102>>, <<116, 104, 101, 110>>, <<101, 108, 115, 101>>,
   <<101, 110, 100>>}

\* ['getfenv', 'setfenv', 'loadstring', 'require'].some(p => name.includes(p))
isCollision(name) ==
  \E pattern \in {<<103, 101, 116, 102, 101, 110, 118>>,
                  <<115, 101, 116, 102, 101, 110, 118>>,
                  <<108, 111, 97, 100, 115, 116, 114, 105, 110, 103>>,
                  <<114, 101, 113, 117, 105, 114, 101>>} :
    Includes(name, pattern)

\* r = [mapping, s, issued]: the renamer's map, the oracle state and the
\* history of identifiers drawn so far.
\* do name = generateIdentifier() while (mapping.has(name) || isCollision(name))
RECURSIVE generateUniqueName(_)
UniqueNameTest(id, r) ==
  IF id.v \in DOMAIN r.mapping \/ isCollision(id.v)
  THEN generateUniqueName(r)
  ELSE [v |-> id.v, r |-> r]
UniqueNameDrawn(id, r) ==
  UniqueNameTest(id, [r EXCEPT !.s = id.s, !.issued = Append(r.issued, id.v)])
generateUniqueName(r) == UniqueNameDrawn(generateIdentifier[r.s], r)

\* this.mapping.set(node.value, this.generateUniqueName())
MappingSet(key, u) == [u.r EXCEPT !.mapping = (key :> u.v) @@ u.r.mapping]

RECURSIVE transform(_, _)
RECURSIVE TransformChildren(_, _)
WithChildren(node, ch) ==
  [node |-> [node EXCEPT !.children = ch.nodes], r |-> ch.r]
RenameNode(node, r) ==
  WithChildren([node EXCEPT !.value = r.mapping[node.value]],
               TransformChildren(node.children, r))
transform(node, r) ==
  IF node.type = "identifier" /\ node.value \notin reserved
  THEN IF node.value \notin DOMAIN r.mapping
       THEN RenameNode(node, MappingSet(node.value, generateUniqueName(r)))
       ELSE RenameNode(node, r)
  ELSE WithChildren(node, TransformChildren(node.children, r))
ChildrenRest(first, rest) ==
  [nodes |-> <<first.node>> \o rest.nodes, r |-> rest.r]
ChildrenFrom(first, children) ==
  ChildrenRest(first, TransformChildren(children, first.r))
TransformChildren(children, r) ==
  IF children = <<>> THEN [nodes |-> <<>>, r |-> r]
  ELSE ChildrenFrom(transform(Head(children), r), Tail(children))

\* how many direct oracle calls the model lets other engines make
MaxIssued == 3

RenInit ==
  /\ entropy \in Seeds
  /\ issued = <<>>
  /\ pc = "parsed"
  /\ program \in RenamePrograms
  /\ ast = program
  /\ mapping = <<>>
  /\ IdleFlow
  /\ IdleDead
  /\ IdleVM
  /\ IdleEnc
  /\ IdleObf
  /\ IdleWeb
  /\ IdleParse
  /\ IdleSanitize
  /\ IdleShare
  /\ IdleTests
  /\ IdleOracle
  /\ IdleDispatch
  /\ IdleBytes
  /\ IdleInject
  /\ IdleCache

Transformed(t) ==
  /\ ast' = t.node
  /\ mapping' = t.r.mapping
  /\ entropy' = t.r.s
  /\ issued' = t.r.issued

\* ast.transform(renamer.transform.bind(renamer)) on a parsed tree
Transform ==
  /\ pc = "parsed"
  /\ Transformed(transform(ast, [mapping |-> mapping, s |-> entropy,
                                 issued |-> issued]))
  /\ pc' = "renamed"
  /\ UNCHANGED <<program, notRen>>

Issued(id) ==
  /\ entropy' = id.s
  /\ issued' = Append(issued, id.v)

\* another engine holding the same oracle draws an identifier
GenerateIdentifier ==
  /\ Len(issued) < MaxIssued
  /\ Issued(generateIdentifier[entropy])
  /\ UNCHANGED <<pc, program, ast, mapping, notRen>>

RenNext == Transform \/ GenerateIdentifier

SpecRen == RenInit /\ [][RenNext]_vars

IsBound(n) == n.type = "identifier" /\ n.decl # 0

\* C4: capture-freedom of the rename pass. After transform, two identifier
\* nodes that resolve to declarations carry the same name exactly when they
\* resolve to the same declaration, so every reference still resolves to its
\* own declaration and two declarations that shared a source name in two
\* scopes have two distinct fresh names.
C4_CaptureFree ==
  pc = "renamed" =>
    LET out == Nodes(ast)
    IN  \A i, j \in DOMAIN out :
          (IsBound(out[i]) /\ IsBound(out[j])) =>
            ((out[i].value = out[j].value) <=> (out[i].decl = out[j].decl))

\* C5: the rename pass leaves every unbound reference unchanged: a node is
\* rewritten only if it is an identifier that resolves to a local, parameter
\* or for-variable declaration, and no reserved name is renamed.
C5_UnboundUnchanged ==
  pc = "renamed" =>
    LET in  == Nodes(program)
        out == Nodes(ast)
    IN  \A i \in DOMAIN in :
          /\ (out[i].value # in[i].value) => IsBound(in[i])
          /\ (in[i].value \in reserved) => (out[i].value = in[i].value)

\* C6: within one oracle instance generateIdentifier never returns an
\* identifier it has already issued, and the renamer's map never gives two
\* distinct source identifiers the same fresh name.
C6_NeverReissued ==
  /\ \A i, j \in DOMAIN issued : (i # j) => (issued[i] # issued[j])
  /\ \A m, n \in DOMAIN mapping : (m # n) => (mapping[m] # mapping[n])

\* ------------------------------------------------------------------------
\* ControlFlowObfuscator
\* The texts the engine builds from templates are kept as records of the
\* parts the template is filled with.
\* ------------------------------------------------------------------------

\* the i-th of a run of randomInt(min, max) calls whose states are st
Draw(st, i, min, max) == ScaleFloor(st[i + 1], max - min + 1) + min

\* c = [s, count]: the oracle state and this.predicateCount
FlowCtx == [s : Word32, count : Nat]

\* the array  predicates  of generateOpaquePredicate: five templates, filled
\* with predicateCount and six randomInt results
OpaquePredicates(count, st) ==
  << [template |-> 1, count |-> count, p1 |-> Draw(st, 1, 0, 1), p2 |-> 0],
     [template |-> 2, count |-> count, p1 |-> Draw(st, 2, 1, 255),
      p2 |-> Draw(st, 3, 0, 127)],
     [template |-> 3, count |-> count, p1 |-> Draw(st, 4, 2, 11), p2 |-> 0],
     [template |-> 4, count |-> count, p1 |-> Draw(st, 5, 100, 1000),
      p2 |-> Draw(st, 6, 2, 5)],
     [template |-> 5, count |-> count, p1 |-> 0, p2 |-> 0] >>

PredicateChosen(count, st) ==
  [v |-> OpaquePredicates(count, st)[Draw(st, 7, 0, 4) + 1],
   c |-> [s |-> st[8], count |-> count]]

generateOpaquePredicate[c \in FlowCtx] ==
  PredicateChosen(c.count + 1, States[c.s, 7])

\* combineConditions: `(${original} ${combiner} ${predicate})` or
\* `(${predicate} ${combiner} ${original})`
combineConditions(original, predicate, st) ==
  [kind |-> "combined", original |-> original,
   combiner |-> <<"and", "or">>[Draw(st, 1, 0, 1) + 1],
   originalFirst |-> Above05(st[3]), predicate |-> predicate]

ConditionCombined(node, p, st) ==
  [node |-> [node EXCEPT !.condition = combineConditions(@, p.v, st)],
   c |-> [p.c EXCEPT !.s = st[3]]]

ConditionWith(node, p) == ConditionCombined(node, p, States[p.c.s, 2])

obfuscateCondition(node, c) == ConditionWith(node, generateOpaquePredicate[c])

Texts      == Seq(Text)
TextsDrawn == [v : Texts, s : Word32]

\* k more generateIdentifier calls, their results appended to r.v
PushId(r, id) == [v |-> Append(r.v, id.v), s |-> id.s]

Ids[r \in TextsDrawn, k \in Nat] ==
  IF k = 0 THEN r ELSE Ids[PushId(r, generateIdentifier[r.s]), k - 1]

\* generateDeadStatement: the five templates are filled in order (three
\* identifiers, randomInt(1, 100), an identifier, randomInt(1, 10)), then one
\* is chosen
DeadStatement == [kind : 0..4, name : Text, n : Int]

DeadChosen(ids, n2, st) ==
  [v |-> << [kind |-> 0, name |-> ids[1], n |-> 0],
            [kind |-> 1, name |-> ids[2], n |-> 0],
            [kind |-> 2, name |-> ids[3], n |-> n2],
            [kind |-> 3, name |-> ids[4], n |-> 0],
            [kind |-> 4, name |-> <<>>, n |-> Draw(st, 1, 1, 10)]
         >>[Draw(st, 2, 0, 4) + 1],
   s |-> st[3]]

DeadFourth[ids \in TextsDrawn, n2 \in Int] ==
  DeadChosen(ids.v, n2, States[ids.s, 2])

DeadNumber[ids \in Texts, n2 \in IntDrawn] ==
  DeadFourth[Ids[[v |-> ids, s |-> n2.s], 1], n2.v]

DeadThree[ids \in TextsDrawn] == DeadNumber[ids.v, randomInt[ids.s, 1, 100]]

generateDeadStatement[s \in Word32] == DeadThree[Ids[[v |-> <<>>, s |-> s], 3]]

\* generateDeadBlock: randomInt(1, 5) dead statements
DeadBlockDrawn == [v : Seq(DeadStatement), s : Word32]

DeadBlockPush(b, d) == [v |-> Append(b.v, d.v), s |-> d.s]

DeadBlockLoop[b \in DeadBlockDrawn, k \in Nat] ==
  IF k = 0 THEN b
  ELSE DeadBlockLoop[DeadBlockPush(b, generateDeadStatement[b.s]), k - 1]

DeadBlockOf[statements \in IntDrawn] ==
  DeadBlockLoop[[v |-> <<>>, s |-> statements.s], statements.v]

generateDeadBlock[s \in Word32] == DeadBlockOf[randomInt[s, 1, 5]]

\* injectOpaquePredicates: randomInt(1, 5) times, node.children.unshift of
\* {type: 'if', condition: predicate, thenBlock: deadCode}
IfNode(p, d) ==
  [node |-> [type |-> "if", value |-> <<>>, children |-> <<>>, decl |-> 0,
             condition |-> [kind |-> "predicate", predicate |-> p.v],
             thenBlock |-> d.v],
   c |-> [p.c EXCEPT !.s = d.s]]

IfNodeWith(p) == IfNode(p, generateDeadBlock[p.c.s])

OneInjected(c) == IfNodeWith(generateOpaquePredicate[c])

\* the if-nodes in the order they are made
RECURSIVE InjectLoop(_, _)
InjectPush(one, rest) ==
  [nodes |-> <<one.node>> \o rest.nodes, c |-> rest.c]
InjectNext(one, k) == InjectPush(one, InjectLoop(one.c, k))
InjectLoop(c, k) ==
  IF k = 0 THEN [nodes |-> <<>>, c |-> c] ELSE InjectNext(OneInjected(c), k - 1)

\* unshift puts each new if-node in front of the ones before it
Injected(node, loop) ==
  [node |-> [node EXCEPT !.children = Reverse(loop.nodes) \o @], c |-> loop.c]

InjectTimes(node, numPredicates, count) ==
  Injected(node, InjectLoop([s |-> numPredicates.s, count |-> count],
                            numPredicates.v))

injectOpaquePredicates(node, c) ==
  InjectTimes(node, randomInt[c.s, 1, 5], c.count)

\* statementToString(stmt)
StatementText == <<45, 45, 32, 115, 116, 97, 116, 101, 109, 101, 110, 116>>

statementToString(stmt) ==
  IF stmt.type = "(string)" THEN stmt.code
  ELSE IF stmt.value # <<>> THEN stmt.value
  ELSE StatementText

\* generateNextState(current, total): randomInt(1, 255) fills the fourth
\* pattern, then randomChoice picks one of the four
generateNextState(current, total, st) ==
  [v |-> [pattern |-> Draw(st, 2, 0, 3), current |-> current,
          total |-> total, key |-> Draw(st, 1, 1, 255)],
   s |-> st[3]]

\* generateDispatcher: two identifiers, then for statement i a case label,
\* its text and its next state
DispatchCase == [label : Text, body : Text,
                 next : [pattern : 0..3, current : Nat, total : Nat, key : Int]]
CasesDrawn   == [v : Seq(DispatchCase), s : Word32]

CasePush(cases, caseLabel, body, next) ==
  [v |-> Append(cases.v, [label |-> caseLabel.v, body |-> body, next |-> next.v]),
   s |-> next.s]

CaseLabelled(cases, caseLabel, bodies) ==
  CasePush(cases, caseLabel, bodies[Len(cases.v) + 1],
           generateNextState(Len(cases.v), Len(bodies), States[caseLabel.s, 2]))

DispatchCases[cases \in CasesDrawn, bodies \in Texts] ==
  IF Len(cases.v) = Len(bodies) THEN cases
  ELSE DispatchCases[CaseLabelled(cases, generateIdentifier[cases.s], bodies),
                     bodies]

\* a JavaScript string among the children: no type, no children
JsString(code) ==
  [type |-> "(string)", value |-> <<>>, children |-> <<>>, decl |-> 0,
   condition |-> NoCondition, code |-> code]

Dispatcher(names, cases) ==
  [v |-> JsString([dispatchVar |-> names.v[1], stateVar |-> names.v[2],
                   cases |-> cases.v]),
   s |-> cases.s]

DispatcherNamed(names, bodies) ==
  Dispatcher(names, DispatchCases[[v |-> <<>>, s |-> names.s], bodies])

generateDispatcher(statements, s) ==
  DispatcherNamed(Ids[[v |-> <<>>, s |-> s], 2],
                  [i \in 1..Len(statements) |-> statementToString(statements[i])])

\* flattenControlFlow(node)
Flattened(node, c, dispatcher) ==
  [node |-> [node EXCEPT !.children = <<dispatcher.v>>],
   c |-> [c EXCEPT !.s = dispatcher.s]]

flattenControlFlow(node, c) ==
  IF Len(node.children) < 2 THEN [node |-> node, c |-> c]
  ELSE Flattened(node, c, generateDispatcher(node.children, c.s))

\* obfuscateFlow(node)
RECURSIVE obfuscateFlow(_, _)
RECURSIVE FlowChildren(_, _)
FlowCondition(node, c) ==
  IF node.type \in {"if", "while", "for"} THEN obfuscateCondition(node, c)
  ELSE [node |-> node, c |-> c]

FlowFlatten(injected) == flattenControlFlow(injected.node, injected.c)

FlowBlock(f) ==
  IF f.node.type = "block"
  THEN FlowFlatten(injectOpaquePredicates(f.node, f.c))
  ELSE f

FlowWithChildren(f, ch) ==
  [node |-> [f.node EXCEPT !.children = ch.nodes], c |-> ch.c]

FlowDescend(f) == FlowWithChildren(f, FlowChildren(f.node.children, f.c))

obfuscateFlow(node, c) == FlowDescend(FlowBlock(FlowCondition(node, c)))

FlowChildrenRest(first, rest) ==
  [nodes |-> <<first.node>> \o rest.nodes, c |-> rest.c]

FlowChildrenFrom(first, children) ==
  FlowChildrenRest(first, FlowChildren(children, first.c))

FlowChildren(children, c) ==
  IF children = <<>> THEN [nodes |-> <<>>, c |-> c]
  ELSE FlowChildrenFrom(obfuscateFlow(Head(children), c), Tail(children))

\* statements of the flow programs
S_print  == Leaf("call", <<112, 114, 105, 110, 116, 40, 120, 41>>)
S_incr   == Leaf("assign", <<120, 32, 61, 32, 120, 32, 43, 32, 49>>)
S_local  == Leaf("local", <<108, 111, 99, 97, 108, 32, 121, 32, 61, 32, 50>>)
S_break  == Leaf("break", <<98, 114, 101, 97, 107>>)
S_return == Leaf("return", <<114, 101, 116, 117, 114, 110, 32, 120>>)
S_goto   == Leaf("goto", <<103, 111, 116, 111, 32, 100, 111, 110, 101>>)

\* print(x) break
FlowBreakBlock  == Node("block", <<S_print, S_break>>)
\* local y = 2 print(x) return x
FlowReturnBlock == Node("block", <<S_local, S_print, S_return>>)
\* x = x + 1 goto done
FlowGotoBlock   == Node("block", <<S_incr, S_goto>>)
\* local y = 2 x = x + 1 print(x)
FlowPlainBlock  == Node("block", <<S_local, S_incr, S_print>>)
\* print(x)
FlowSingleBlock == Node("block", <<S_print>>)
FlowEmptyBlock  == Node("block", <<>>)
\* while x < 3 do x = x + 1 break end
FlowWhile == Cond("while", <<120, 32, 60, 32, 51>>, <<Node("block", <<S_incr,
    S_break>>)>>)
\* if c then return x end
FlowIf    == Cond("if", <<99>>, <<Node("block", <<S_return>>)>>)

FlowPrograms ==
  {FlowBreakBlock, FlowReturnBlock, FlowGotoBlock, FlowPlainBlock,
   FlowSingleBlock, FlowEmptyBlock, FlowWhile, FlowIf}

FlowInit ==
  /\ entropy \in Seeds
  /\ pc = "parsed"
  /\ program \in FlowPrograms
  /\ ast = program
  /\ predicateCount = 0
  /\ IdleRen
  /\ IdleDead
  /\ IdleVM
  /\ IdleEnc
  /\ IdleObf
  /\ IdleWeb
  /\ IdleParse
  /\ IdleSanitize
  /\ IdleShare
  /\ IdleTests
  /\ IdleOracle
  /\ IdleDispatch
  /\ IdleBytes
  /\ IdleInject
  /\ IdleCache

FlowDone(f) ==
  /\ ast' = f.node
  /\ entropy' = f.c.s
  /\ predicateCount' = f.c.count

\* ast.transform(flow.obfuscateFlow.bind(flow)) on a parsed tree
ObfuscateFlow ==
  /\ pc = "parsed"
  /\ FlowDone(obfuscateFlow(ast, [s |-> entropy, count |-> predicateCount]))
  /\ pc' = "flowed"
  /\ UNCHANGED <<program, notFlow>>

\* obfuscateCondition(node) on an if, while or for node
ObfuscateCondition ==
  /\ pc = "parsed"
  /\ ast.type \in {"if", "while", "for"}
  /\ FlowDone(obfuscateCondition(ast, [s |-> entropy, count |-> predicateCount]))
  /\ pc' = "conditioned"
  /\ UNCHANGED <<program, notFlow>>

\* injectOpaquePredicates(node) on a block
InjectOpaquePredicates ==
  /\ pc = "parsed"
  /\ ast.type = "block"
  /\ FlowDone(injectOpaquePredicates(ast, [s |-> entropy,
                                           count |-> predicateCount]))
  /\ pc' = "injected"
  /\ UNCHANGED <<program, notFlow>>

\* flattenControlFlow(node) on a block, as parsed or after the injection
FlattenControlFlow ==
  /\ pc \in {"parsed", "injected"}
  /\ ast.type = "block"
  /\ FlowDone(flattenControlFlow(ast, [s |-> entropy, count |-> predicateCount]))
  /\ pc' = "flattened"
  /\ UNCHANGED <<program, notFlow>>

FlowNext ==
  \/ ObfuscateFlow
  \/ ObfuscateCondition
  \/ InjectOpaquePredicates
  \/ FlattenControlFlow

SpecFlow == FlowInit /\ [][FlowNext]_vars

\* the block holds a statement that leaves the dispatch loop
HasTransfer(block) ==
  \E i \in DOMAIN Nodes(block) :
    Nodes(block)[i].type \in {"break", "return", "goto"}

IsFlattened(block) ==
  \E i \in DOMAIN block.children : block.children[i].type = "(string)"

\* C7: the pass never flattens a block that contains a break, a return or a
\* goto: a call of flattenControlFlow on such a block leaves its children
\* unchanged, and obfuscateFlow does not replace them by a dispatcher.
C7_TransferBlocksKept ==
  [][ /\ (pc' = "flattened" /\ HasTransfer(ast)) => (ast'.children = ast.children)
      /\ (pc' = "flowed" /\ ast.type = "block" /\ HasTransfer(ast))
           => ~IsFlattened(ast') ]_vars

\* floor(math.sin(n) * 1000000) for n = 1..16
SinMillionths ==
  <<841470, 909297, 141120, -756803, -958925, -279416, 656986, 989358,
    412118, -544022, -999991, -536573, 420167, 990607, 650287, -287904>>

\* the values the emitted predicate text can take when the script runs:
\*   1  (math.sin(count) * 1000) % 2 == p1     sin(count) * 1000 is no integer
\*   2  bit32.bxor(count, p1) > p2
\*   3  string.byte("X", 1) * count % p1 == 0   string.byte("X", 1) = 88
\*   4  os.clock() * p1 % p2 ~= 0               depends on the CPU time read
\*   5  table.concat({"a", "b", "c"}) ~= "" and count * 0 == 0
PredicateValues(p) ==
  CASE p.template = 1 ->
         {/\ SinMillionths[p.count] % 1000 = 0
          /\ (SinMillionths[p.count] \div 1000) % 2 = p.p1}
    [] p.template = 2 -> {BitXor(p.count, p.p1) > p.p2}
    [] p.template = 3 -> {(88 * p.count) % p.p1 = 0}
    [] p.template = 4 -> BOOLEAN
    [] p.template = 5 -> {TRUE}

\* the value of  (a and b)  or  (a or b)  on booleans
Combined(combiner, a, b) == IF combiner = "and" THEN a /\ b ELSE a \/ b

ConditionValue(cond, c, v) ==
  IF cond.originalFirst THEN Combined(cond.combiner, c, v)
  ELSE Combined(cond.combiner, v, c)

\* C8: the combined condition has the value of the original one: for every
\* node whose source condition the pass has combined with a predicate, every value c
\* of the original condition and every value the predicate can take, the
\* combined condition evaluates to c.
C8_ConditionPreserved ==
  \A i \in DOMAIN Nodes(ast) :
    (/\ Nodes(ast)[i].condition.kind = "combined"
     /\ Nodes(ast)[i].condition.original.kind = "source") =>
      \A c \in BOOLEAN :
        \A v \in PredicateValues(Nodes(ast)[i].condition.predicate) :
          ConditionValue(Nodes(ast)[i].condition, c, v) = c

\* ------------------------------------------------------------------------
\* DeadCodeInjector
\* A node is identified by its path from the root (the indexes of the
\* children followed); point.parent holds the path of the node.
\* ------------------------------------------------------------------------

\* the array  types  of selectInjectionType
InjectionTypes ==
  <<"fakeLoop", "deadCalculation", "mockFunction", "stateMutation",
    "conditionalNoise", "tableOperations", "stringManipulation",
    "metatableNoise">>

Min(a, b) == IF a < b THEN a ELSE b

\* Math.min(10, Math.floor(node.children.length * 0.3))
maxInjections(node) == Min(10, (3 * Len(node.children)) \div 10)

\* the points pushed by the loop: for each, randomInt(0, length - 1) and
\* selectInjectionType()
PointsPushed(node, path, numInjections, st) ==
  [i \in 1..numInjections |->
     [parent |-> path,
      position |-> Draw(st, 2 * i - 1, 0, Len(node.children) - 1),
      type |-> InjectionTypes[Draw(st, 2 * i, 0, 7) + 1]]]

\* d = [points, s]: this.injectionPoints and the oracle state
RECURSIVE identifyInjectionPoints(_, _, _)
RECURSIVE IdentifyChildren(_, _, _, _)
PointsLoop(node, path, d, numInjections, st) ==
  IdentifyChildren(node, path, 1,
    [points |-> d.points \o PointsPushed(node, path, numInjections, st),
     s |-> st[2 * numInjections + 1]])

PointsOf(node, path, d, numInjections) ==
  PointsLoop(node, path, d, numInjections.v,
             States[numInjections.s, 2 * numInjections.v])

identifyInjectionPoints(node, path, d) ==
  IF node.children = <<>> THEN d
  ELSE PointsOf(node, path, d, randomInt[d.s, 1, maxInjections(node)])

\* node.children.forEach(child => this.identifyInjectionPoints(child))
IdentifyChildren(node, path, i, d) ==
  IF i > Len(node.children) THEN d
  ELSE IdentifyChildren(node, path, i + 1,
         identifyInjectionPoints(node.children[i], Append(path, i), d))

\* blocks of 1, 2, 3, 4, 7 and 10 statements and a block inside a block
BlockOf1  == Node("block", <<S_print>>)
BlockOf2  == Node("block", <<S_local, S_print>>)
BlockOf3  == Node("block", <<S_local, S_incr, S_print>>)
BlockOf4  == Node("block", <<S_local, S_incr, S_print, S_return>>)
BlockOf7  == Node("block", <<S_local, S_incr, S_print, S_incr, S_print,
                             S_incr, S_return>>)
BlockOf10 == Node("block", <<S_local, S_incr, S_print, S_incr, S_print,
                             S_incr, S_print, S_incr, S_print, S_return>>)
BlockNested ==
  Node("block", <<S_local, Node("block", <<S_incr, S_print>>), S_print,
                  S_return>>)

DeadPrograms ==
  {BlockOf1, BlockOf2, BlockOf3, BlockOf4, BlockOf7, BlockOf10, BlockNested}

DeadInit ==
  /\ entropy \in Seeds
  /\ pc = "parsed"
  /\ program \in DeadPrograms
  /\ ast = program
  /\ injectionPoints = <<>>
  /\ IdleRen
  /\ IdleFlow
  /\ IdleVM
  /\ IdleEnc
  /\ IdleObf
  /\ IdleWeb
  /\ IdleParse
  /\ IdleSanitize
  /\ IdleShare
  /\ IdleTests
  /\ IdleOracle
  /\ IdleDispatch
  /\ IdleBytes
  /\ IdleInject
  /\ IdleCache

Identified(d) ==
  /\ injectionPoints' = d.points
  /\ entropy' = d.s

\* identifyInjectionPoints(node) on the root of a parsed tree
IdentifyInjectionPoints ==
  /\ pc = "parsed"
  /\ Identified(identifyInjectionPoints(ast, <<>>,
                  [points |-> injectionPoints, s |-> entropy]))
  /\ pc' = "identified"
  /\ UNCHANGED <<program, ast, notDead>>

\* an engine that ran before on the same oracle drew from it
OracleDrawn ==
  /\ pc = "parsed"
  /\ Len(issued) < MaxIssued
  /\ Issued(generateIdentifier[entropy])
  /\ UNCHANGED <<pc, program, ast, mapping, flowVars, deadVars, vmVars, encVars,
                 obfVars, webVars, parseVars,
                 sanitizeVars,
                 shareVars,
                 testsVars,
                 oracleVars,
                 dispatchVars,
                 bytesVars,
                 injectVars,
                 cacheVars>>

DeadNext == IdentifyInjectionPoints \/ OracleDrawn

SpecDead == DeadInit /\ [][DeadNext]_vars

\* the paths of the nodes of a tree
RECURSIVE Paths(_, _)
Paths(node, path) ==
  {path} \cup UNION {Paths(node.children[i], Append(path, i)) :
                       i \in DOMAIN node.children}

RECURSIVE NodeAt(_, _)
NodeAt(node, path) ==
  IF path = <<>> THEN node ELSE NodeAt(node.children[Head(path)], Tail(path))

\* the number of injections scheduled for the node at a path
Scheduled(path) ==
  Cardinality({i \in DOMAIN injectionPoints : injectionPoints[i].parent = path})

\* C9: for every block with n original statements, n = 1, 2, 3 included, the
\* number of statements scheduled for insertion into it is at most
\* floor(0.3 * n).
C9_DensityBound ==
  pc = "identified" =>
    \A path \in Paths(program, <<>>) :
      Scheduled(path) <= (3 * Len(NodeAt(program, path).children)) \div 10

\* ------------------------------------------------------------------------
\* VirtualMachine
\* ------------------------------------------------------------------------

\* Object.keys(baseOpcodes) and Object.values(baseOpcodes)
OpNames == <<"LOAD", "STORE", "CALL", "JUMP", "RETURN", "COMPARE", "MATH",
             "TABLE">>
baseOpcodes == <<6719, 11086, 15453, 19820, 24187, 28554, 31385, 35752>>

\* generateOpcodes: random() > 0.5 && values.reverse(), then for the i-th key
\* values[i] ^ randomInt(0x1000, 0xFFFF)
OpcodeValues(st) ==
  IF Above05(st[2]) THEN Reverse(baseOpcodes) ELSE baseOpcodes

OpcodesWith(st) ==
  [v |-> [i \in 1..8 |-> BitXor(OpcodeValues(st)[i],
                                Draw(st, i + 1, 4096, 65535))],
   s |-> st[10]]

generateOpcodes[s \in Word32] == OpcodesWith(States[s, 9])

\* generateRegisters: 16 identifiers
generateRegisters[s \in Word32] == Ids[[v |-> <<>>, s |-> s], 16]

\* generateOpcodeAction(op): the four templates are filled on every call
\* (randomRegister; randomMemory, randomRegister; randomRegister;
\* randomRegister), and the one of op, if any, is returned
OpcodeAction(regs, op, st) ==
  CASE op = "LOAD"  -> [op |-> "LOAD", reg |-> regs[Draw(st, 1, 0, 15) + 1],
                        memory |-> 0]
    [] op = "STORE" -> [op |-> "STORE", reg |-> regs[Draw(st, 3, 0, 15) + 1],
                        memory |-> Draw(st, 2, 0, 255)]
    [] op = "CALL"  -> [op |-> "CALL", reg |-> regs[Draw(st, 4, 0, 15) + 1],
                        memory |-> 0]
    [] op = "JUMP"  -> [op |-> "JUMP", reg |-> regs[Draw(st, 5, 0, 15) + 1],
                        memory |-> 0]
    [] OTHER        -> [op |-> "unknown", reg |-> <<>>, memory |-> 0]

\* generateDispatchLogic: one branch  op == value then action  per opcode, in
\* the order of the keys; st holds the states of the 40 draws
DispatchLogic(ops, regs, st) ==
  [i \in 1..8 |->
     [value |-> ops[i],
      action |-> OpcodeAction(regs, OpNames[i],
                              SubSeq(st, 5 * i - 4, 5 * i + 1))]]

\* compileToVM(node)
compileToVM(node) ==
  IF node.type = "function" THEN <<[op |-> "CALL", args |-> <<0, 0>>]>>
  ELSE <<>>

\* this.opcodes[instr.op] || 0
OpcodeOf(ops, name) ==
  IF \E i \in 1..8 : OpNames[i] = name
  THEN ops[CHOOSE i \in 1..8 : OpNames[i] = name]
  ELSE 0

\* encodeInstructions: (op & 0xFFFF) | ((arg1 & 0xFF) << 16) |
\* ((arg2 & 0xFF) << 24), as <<high half, low half>>
encodeInstructions(ops, instructions) ==
  [i \in 1..Len(instructions) |->
     <<(instructions[i].args[1] % 256) + 256 * (instructions[i].args[2] % 256),
       OpcodeOf(ops, instructions[i].op) % 65536>>]

\* generateVMCode: three identifiers, the encoded instructions, then the
\* dispatch logic
VMCode(ops, regs, names, instructions, st) ==
  [v |-> [vmName |-> names.v[1], memName |-> names.v[2], ipName |-> names.v[3],
          registers |-> regs,
          dispatch |-> DispatchLogic(ops, regs, st),
          encoded |-> encodeInstructions(ops, instructions)],
   s |-> st[41]]

VMCodeNamed(ops, regs, names, instructions) ==
  VMCode(ops, regs, names, instructions, States[names.s, 40])

generateVMCode(ops, regs, instructions, s) ==
  VMCodeNamed(ops, regs, Ids[[v |-> <<>>, s |-> s], 3], instructions)

\* the instruction lists the model encodes: those of compileToVM and lists of
\* up to MaxMem instructions over five of the opcodes
MaxMem == 2
Instructions ==
  [op : {"LOAD", "STORE", "CALL", "JUMP", "RETURN"}, args : {<<1, 0>>}]
Streams == UNION {[1..n -> Instructions] : n \in 0..MaxMem}

VMInit ==
  /\ entropy \in Seeds
  /\ pc = "new"
  /\ program \in {Node("function", <<>>), Node("block", <<>>)}
  /\ ast = program
  /\ IdleVM
  /\ IdleRen
  /\ IdleFlow
  /\ IdleDead
  /\ IdleEnc
  /\ IdleObf
  /\ IdleWeb
  /\ IdleParse
  /\ IdleSanitize
  /\ IdleShare
  /\ IdleTests
  /\ IdleOracle
  /\ IdleDispatch
  /\ IdleBytes
  /\ IdleInject
  /\ IdleCache

Constructed(ops, regs) ==
  /\ opcodes' = ops.v
  /\ registers' = regs.v
  /\ entropy' = regs.s

ConstructedWith(ops) == Constructed(ops, generateRegisters[ops.s])

\* new VirtualMachine(this.entropy)
Construct ==
  /\ pc = "new"
  /\ ConstructedWith(generateOpcodes[entropy])
  /\ pc' = "constructed"
  /\ UNCHANGED <<program, ast, emitted, mem, ip, globals, notVM>>

\* the emitted script as it starts: vm.mem = {encoded}, vm.ip = 1
Wrapped(code) ==
  /\ emitted' = code.v
  /\ ast' = [ast EXCEPT !.value = code.v]
  /\ mem' = code.v.encoded
  /\ ip' = 1
  /\ entropy' = code.s

\* ast.transform(vm.wrap.bind(vm)) on a function or a block
Wrap ==
  /\ pc = "constructed"
  /\ ast.type \in {"function", "block"}
  /\ Wrapped(generateVMCode(opcodes, registers, compileToVM(ast), entropy))
  /\ pc' = "running"
  /\ UNCHANGED <<program, opcodes, registers, globals, notVM>>

\* generateVMCode with the encoding of any instruction list
WrapStream ==
  /\ pc = "constructed"
  /\ \E instructions \in Streams :
       Wrapped(generateVMCode(opcodes, registers, instructions, entropy))
  /\ pc' = "running"
  /\ UNCHANGED <<program, opcodes, registers, globals, notVM>>

\* bit32.extract(instr, 0, 16), bit32.extract(instr, 16, 8),
\* bit32.extract(instr, 24, 8)
ExtractOp(instr)   == instr[2]
ExtractArg1(instr) == instr[1] % 256
ExtractArg2(instr) == instr[1] \div 256

\* the branch of the if/elseif chain taken for op: the first whose value
\* equals op; none taken is the action of an unknown op
Branch(dispatch, op) ==
  IF \E i \in 1..8 : dispatch[i].value = op
  THEN dispatch[CHOOSE i \in 1..8 :
                  /\ dispatch[i].value = op
                  /\ \A j \in 1..(i - 1) : dispatch[j].value # op].action
  ELSE [op |-> "unknown", reg |-> <<>>, memory |-> 0]

\* the name of the global  ip  assigned by the JUMP branch
G_ip == <<105, 112>>

\* the statement of a branch raises a Lua error:
\*   STORE  mem[k] = REG          indexes the global mem, which is nil
\*   CALL   local result = REG + arg1   arithmetic on nil unless REG is set
Raises(action) ==
  \/ action.op = "STORE"
  \/ action.op = "CALL" /\ action.reg \notin DOMAIN globals

\* the globals after the statement of a branch:
\*   LOAD   REG = arg1
\*   JUMP   if REG then ip = arg1 end
Assigned(action, arg1) ==
  CASE action.op = "LOAD" -> (action.reg :> arg1) @@ globals
    [] action.op = "JUMP" /\ action.reg \in DOMAIN globals ->
         (G_ip :> arg1) @@ globals
    [] OTHER -> globals

Executed(action, arg1) ==
  IF Raises(action)
  THEN pc' = "error" /\ UNCHANGED <<ip, globals>>
  ELSE /\ globals' = Assigned(action, arg1)
       /\ ip' = ip + 1
       /\ pc' = "running"

\* one turn of  while vm.ip <= #vm.mem do ... vm.ip = vm.ip + 1 end
Execute ==
  /\ pc = "running"
  /\ ip <= Len(mem)
  /\ Executed(Branch(emitted.dispatch, ExtractOp(mem[ip])), ExtractArg1(mem[ip]))
  /\ UNCHANGED <<entropy, program, ast, opcodes, registers, emitted, mem, notVM>>

\* the loop condition is false: vm_execute returns
Exit ==
  /\ pc = "running"
  /\ ip > Len(mem)
  /\ pc' = "halted"
  /\ UNCHANGED <<entropy, program, ast, vmVars, notVM>>

VMNext == Construct \/ Wrap \/ WrapStream \/ Execute \/ Exit

SpecVM == VMInit /\ [][VMNext]_vars

\* the host that runs the emitted script keeps running it: a turn of the
\* loop, or leaving it, is taken when it can be
SpecVMFair == SpecVM /\ WF_vars(Execute) /\ WF_vars(Exit)

\* C10: the emitted interpreter loop terminates for every encoded
\* instruction stream: once the script runs, the instruction pointer
\* eventually exceeds #mem and the loop is left.
C10_LoopTerminates == (pc = "running") ~> (pc = "halted" /\ ip > Len(mem))

\* ------------------------------------------------------------------------
\* ByteEncryptor
\* ------------------------------------------------------------------------

\* new TextEncoder().encode(str): the UTF-8 bytes of a string of UTF-16 code
\* units; a surrogate without its partner is encoded as U+FFFD
IsHigh(c) == c >= 55296 /\ c <= 56319
IsLow(c)  == c >= 56320 /\ c <= 57343

CodePoint(hi, lo) == 65536 + (hi - 55296) * 1024 + (lo - 56320)

Utf8Of(cp) ==
  IF cp < 128 THEN <<cp>>
  ELSE IF cp < 2048 THEN <<192 + (cp \div 64), 128 + (cp % 64)>>
  ELSE IF cp < 65536
  THEN <<224 + (cp \div 4096), 128 + ((cp \div 64) % 64), 128 + (cp % 64)>>
  ELSE <<240 + (cp \div 262144), 128 + ((cp \div 4096) % 64),
         128 + ((cp \div 64) % 64), 128 + (cp % 64)>>

RECURSIVE TextEncode(_)
TextEncode(str) ==
  IF str = <<>> THEN <<>>
  ELSE IF IsHigh(str[1]) /\ Len(str) > 1 /\ IsLow(str[2])
  THEN Utf8Of(CodePoint(str[1], str[2])) \o TextEncode(SubSeq(str, 3, Len(str)))
  ELSE IF IsHigh(str[1]) \/ IsLow(str[1])
  THEN <<239, 191, 189>> \o TextEncode(Tail(str))
  ELSE Utf8Of(str[1]) \o TextEncode(Tail(str))

\* applyNonLinearTransform: three polynomial steps on each byte
NonLinear1(b) == BitXor(b * 7, b \div 16) % 256
NonLinear2(b) == BitXor(b * 13, b * 8) % 256
NonLinear3(b) == BitXor(b * 31, b \div 32) % 256

applyNonLinearTransform(bytes) ==
  [i \in 1..Len(bytes) |-> NonLinear3(NonLinear2(NonLinear1(bytes[i])))]

\* applyIndexTransform: (byte ^ key ^ ((i * 17) % 256)) & 0xFF, i from 0
IndexTransformed(bytes, key) ==
  [v |-> [i \in 1..Len(bytes) |->
            BitXor(BitXor(bytes[i], key.v), ((i - 1) * 17) % 256) % 256],
   s |-> key.s]

applyIndexTransform(bytes, s) == IndexTransformed(bytes, randomInt[s, 1, 255])

\* applyTableRemap: table[i] is kept at index i + 1. The Fisher-Yates loop
\* runs i = 255..1; its k-th turn has i = 256 - k and draws
\* j = Math.floor(random() * (i + 1)).
ByteTables == [1..256 -> 0..255]

Swapped(table, i, j) ==
  [table EXCEPT ![i + 1] = table[j + 1], ![j + 1] = table[i + 1]]

\* the turns from..to of the loop, split in halves
Shuffled[table \in ByteTables, st \in Seq(Word32), from \in Nat, to \in Nat] ==
  IF from = to
  THEN Swapped(table, 256 - from, Draw(st, from, 0, 256 - from))
  ELSE Shuffled[Shuffled[table, st, from, (from + to) \div 2], st,
                ((from + to) \div 2) + 1, to]

Remapped(bytes, table, s) ==
  [v |-> [i \in 1..Len(bytes) |-> table[bytes[i] + 1]], s |-> s]

RemapWith(bytes, st) ==
  Remapped(bytes, Shuffled[[i \in 1..256 |-> i - 1], st, 1, 255], st[256])

applyTableRemap(bytes, s) == RemapWith(bytes, States[s, 255])

\* multiStageEncrypt(str)
EncryptRemap(transformed2) == applyTableRemap(transformed2.v, transformed2.s)

multiStageEncrypt(str, s) ==
  EncryptRemap(applyIndexTransform(applyNonLinearTransform(TextEncode(str)), s))

\* findInverse(mult)
findInverse(mult) ==
  IF \E i \in 1..255 : (mult * i) % 256 = 1
  THEN CHOOSE i \in 1..255 :
         /\ (mult * i) % 256 = 1
         /\ \A j \in 1..(i - 1) : (mult * j) % 256 # 1
  ELSE 1

\* generateDecryptor: table = new Array(256).fill(0), then
\* inverseTable[table[i]] = i for i = 0..255: the indexes never assigned stay
\* holes of the array
DecryptorTable == [i \in 0..255 |-> 0]

inverseTable ==
  [k \in {DecryptorTable[i] : i \in 0..255} |->
     CHOOSE i \in 0..255 :
       /\ DecryptorTable[i] = k
       /\ \A j \in (i + 1)..255 : DecryptorTable[j] # k]

\* the parts the text of the decryptor is built from; the template draws
\* its own randomInt(1, 255) for the XOR key
DecryptorText(names, key, encryptedBytes) ==
  [v |-> [decryptorName |-> names.v[1], tableName |-> names.v[2],
          resultName |-> names.v[3], inverseTable |-> inverseTable,
          key |-> key.v,
          inverses |-> <<findInverse(31), findInverse(13), findInverse(7)>>,
          encryptedBytes |-> encryptedBytes],
   s |-> key.s]

DecryptorNamed(names, encryptedBytes) ==
  DecryptorText(names, randomInt[names.s, 1, 255], encryptedBytes)

generateDecryptor(encryptedBytes, s) ==
  DecryptorNamed(Ids[[v |-> <<>>, s |-> s], 3], encryptedBytes)

\* encryptStrings(node)
RECURSIVE encryptStrings(_, _)
RECURSIVE EncryptChildren(_, _)
EncWithChildren(node, ch) ==
  [node |-> [node EXCEPT !.children = ch.nodes], s |-> ch.s]

EncValue(node, decryptor) ==
  EncWithChildren([node EXCEPT !.value = decryptor.v],
                  EncryptChildren(node.children, decryptor.s))

EncDecryptor(node, encrypted) ==
  EncValue(node, generateDecryptor(encrypted.v, encrypted.s))

encryptStrings(node, s) ==
  IF node.type = "string"
  THEN EncDecryptor(node, multiStageEncrypt(node.value, s))
  ELSE EncWithChildren(node, EncryptChildren(node.children, s))

EncChildrenRest(first, rest) ==
  [nodes |-> <<first.node>> \o rest.nodes, s |-> rest.s]

EncChildrenFrom(first, children) ==
  EncChildrenRest(first, EncryptChildren(children, first.s))

EncryptChildren(children, s) ==
  IF children = <<>> THEN [nodes |-> <<>>, s |-> s]
  ELSE EncChildrenFrom(encryptStrings(Head(children), s), Tail(children))

\* running the text of a decryptor.
\* The table constructor  {255,,,...}  written by inverseTable.join(',') is
\* not Lua: the text loads only if no index of the inverse table is a hole.
TableLoads(text) == DOMAIN text.inverseTable = 0..255

\* the bytes the loop of the text computes where a hole is read as nil:
\*   b = T[b + 1] or 0
\*   b = (b ~ K) + (i * 17) % 256
\*   b = ((b * I31) ~ (b << 5)) & 0xFF
\*   b = ((b * I13) ~ (b >> 3)) & 0xFF
\*   b = ((b * I7) ~ (b << 4)) & 0xFF
\* (x ~ y) & 0xFF is computed as (x & 0xFF) ~ (y & 0xFF)
Lookup(text, b) ==
  IF b \in DOMAIN text.inverseTable THEN text.inverseTable[b] ELSE 0

Unkeyed(text, b, i) == BitXor(Lookup(text, b), text.key) + ((i * 17) % 256)

Inverse31(text, b) == BitXor((b * text.inverses[1]) % 256, (b * 32) % 256)
Inverse13(text, b) == BitXor((b * text.inverses[2]) % 256, (b \div 8) % 256)
Inverse7(text, b)  == BitXor((b * text.inverses[3]) % 256, (b * 16) % 256)

DecodedByte(text, b, i) ==
  Inverse7(text, Inverse13(text, Inverse31(text, Unkeyed(text, b, i))))

RunDecryptor(text) ==
  [loads |-> TableLoads(text),
   result |-> [i \in 1..Len(text.encryptedBytes) |->
                 DecodedByte(text, text.encryptedBytes[i], i)]]

\* string nodes: empty, ASCII, a null character alone and embedded,
\* two-byte and three-byte characters, a surrogate pair (U+1F600) and a
\* surrogate alone; and the tree of print("hi")
Str(value) == Leaf("string", value)

StringPrograms ==
  {Str(<<>>), Str(<<104, 105>>), Str(<<0>>), Str(<<97, 0, 98>>), Str(<<233>>),
   Str(<<8364>>), Str(<<55357, 56832>>), Str(<<55357>>),
   Node("call", <<Ident(N_print, 0), Str(<<104, 105>>)>>)}

EncInit ==
  /\ entropy \in Seeds
  /\ pc = "parsed"
  /\ program \in StringPrograms
  /\ ast = program
  /\ decoded = <<>>
  /\ IdleRen
  /\ IdleFlow
  /\ IdleDead
  /\ IdleVM
  /\ IdleObf
  /\ IdleWeb
  /\ IdleParse
  /\ IdleSanitize
  /\ IdleShare
  /\ IdleTests
  /\ IdleOracle
  /\ IdleDispatch
  /\ IdleBytes
  /\ IdleInject
  /\ IdleCache

Encrypted(e) ==
  /\ ast' = e.node
  /\ entropy' = e.s

\* ast.transform(encryptor.encryptStrings.bind(encryptor)) on a parsed tree
EncryptStrings ==
  /\ pc = "parsed"
  /\ Encrypted(encryptStrings(ast, entropy))
  /\ pc' = "encrypted"
  /\ UNCHANGED <<program, decoded, notEnc>>

\* the string nodes of a tree in the order encryptStrings visits them
StringNodes(node) == SelectSeq(Nodes(node), LAMBDA n : n.type = "string")

\* the emitted text of every string node is run
RunDecryptors ==
  /\ pc = "encrypted"
  /\ decoded' = [i \in DOMAIN StringNodes(ast) |->
                   RunDecryptor(StringNodes(ast)[i].value)]
  /\ pc' = "decrypted"
  /\ UNCHANGED <<entropy, program, ast, notEnc>>

EncNext == EncryptStrings \/ RunDecryptors \/ OracleDrawn

SpecEnc == EncInit /\ [][EncNext]_vars

\* C2: string-encryption reversibility. For every input string, running the
\* decoder text emitted for it over the byte list of multiStageEncrypt gives
\* back exactly the bytes of the string.
C2_Reversible ==
  pc = "decrypted" =>
    \A i \in DOMAIN decoded :
      /\ decoded[i].loads
      /\ decoded[i].result = TextEncode(StringNodes(program)[i].value)

\* ------------------------------------------------------------------------
\* Obfuscator
\* ------------------------------------------------------------------------

\* code.split('\n') and lines.join('\n')
NewlinesOf(text) == {i \in 1..Len(text) : text[i] = 10}

\* the position of the k-th '\n' of the text; 0 before the first line and
\* Len(text) + 1 after the last
Newline(text, k) ==
  IF k = 0 THEN 0
  ELSE IF k > Cardinality(NewlinesOf(text)) THEN Len(text) + 1
  ELSE CHOOSE i \in NewlinesOf(text) :
         Cardinality({j \in NewlinesOf(text) : j < i}) = k - 1

Split(text) ==
  [k \in 1..(Cardinality(NewlinesOf(text)) + 1) |->
     SubSeq(text, Newline(text, k - 1) + 1, Newline(text, k) - 1)]

RECURSIVE JoinRange(_, _, _)
JoinRange(lines, from, to) ==
  IF from > to THEN <<>>
  ELSE IF from = to THEN lines[from]
  ELSE JoinRange(lines, from, (from + to) \div 2) \o <<10>>
       \o JoinRange(lines, ((from + to) \div 2) + 1, to)

Join(lines) == JoinRange(lines, 1, Len(lines))

\* str.repeat(n)
Repeat(str, n) == IF n = 0 THEN <<>> ELSE IF n = 1 THEN str ELSE str \o str

\* padWithRandomWhitespace(str); st holds the states of its four draws
Spaces == << <<32>>, <<9>>, <<32, 32>>, <<9, 9>> >>

padWithRandomWhitespace(str, st) ==
  Repeat(Spaces[Draw(st, 1, 0, 3) + 1], Draw(st, 2, 0, 2)) \o str
  \o Repeat(Spaces[Draw(st, 3, 0, 3) + 1], Draw(st, 4, 0, 2))

\* generateRandomComment(): randomChoice of seven comments
Comments ==
  << <<45, 45, 32, 226, 376, 168, 109, 101, 109, 111, 114, 121, 32, 105, 110,
       116, 101, 103, 114, 105, 116, 121, 226, 376, 169>>,
     <<45, 45, 32, 226, 163, 99, 104, 101, 99, 107, 115, 117, 109, 32, 118,
       97, 108, 105, 100, 226, 166>>,
     <<45, 45, 32, 226, 184, 162, 101, 110, 118, 105, 114, 111, 110, 109,
       101, 110, 116, 32, 115, 116, 97, 98, 108, 101, 226, 184, 165>>,
     <<45, 45, 32, 226, 161, 110, 111, 32, 116, 97, 109, 112, 101, 114, 105,
       110, 103, 32, 100, 101, 116, 101, 99, 116, 101, 100, 226, 164>>,
     <<45, 45, 32, 226, 166, 8212, 101, 120, 101, 99, 117, 116, 105, 111,
       110, 32, 110, 111, 109, 105, 110, 97, 108, 226, 166, 732>>,
     <<45, 45, 32, 226, 376, 166, 115, 116, 97, 99, 107, 32, 112, 114, 111,
       116, 101, 99, 116, 101, 100, 226, 376, 167>>,
     <<45, 45, 32, 226, 166, 8240, 116, 105, 109, 105, 110, 103, 32, 110,
       111, 109, 105, 110, 97, 108, 226, 166, 352>> >>

\* applyFinalTransformations, one line: random() > 0.7 pads the line (four
\* draws), then random() > 0.9 appends ' ' and a comment (one draw); st holds
\* the states of the up to seven draws
Padded(line, st) ==
  IF Above07(st[2])
  THEN [v |-> padWithRandomWhitespace(line, SubSeq(st, 2, 6)), n |-> 5]
  ELSE [v |-> line, n |-> 1]

Commented(padded, st) ==
  IF Above09(st[padded.n + 2])
  THEN [v |-> padded.v \o <<32>> \o Comments[Draw(st, padded.n + 2, 0, 6) + 1],
        s |-> st[padded.n + 3]]
  ELSE [v |-> padded.v, s |-> st[padded.n + 2]]

FinalLine(line, st) == Commented(Padded(line, st), st)

LinePushed(done, line) == [v |-> Append(done.v, line.v), s |-> line.s]

FinalLoop[done \in TextsDrawn, lines \in Texts] ==
  IF Len(done.v) = Len(lines) THEN done
  ELSE FinalLoop[LinePushed(done, FinalLine(lines[Len(done.v) + 1],
                                            States[done.s, 7])), lines]

Joined(transformed) == [v |-> Join(transformed.v), s |-> transformed.s]

applyFinalTransformations(text, s) ==
  Joined(FinalLoop[[v |-> <<>>, s |-> s], Split(text)])

\* parseLuau(code) returns {transform: (t) => t(this), toString: () => code}:
\* every pass is called on the Obfuscator object, which has no type, no
\* value and no children, and toString gives back the code
ObfuscatorObject ==
  [type |-> "undefined", value |-> <<>>, children |-> <<>>, decl |-> 0,
   condition |-> NoCondition]

\* wrap(node)
wrap(node, ops, regs, s) ==
  IF node.type \in {"function", "block"}
  THEN generateVMCode(ops, regs, compileToVM(node), s).s
  ELSE s

\* the oracle state after each pass of obfuscate
PassRenaming(opts, s) ==
  IF opts.variableRenaming
  THEN transform(ObfuscatorObject,
                 [mapping |-> <<>>, s |-> s, issued |-> <<>>]).r.s
  ELSE s

PassStrings(opts, s) ==
  IF opts.stringEncryption THEN encryptStrings(ObfuscatorObject, s).s ELSE s

PassFlow(opts, s) ==
  IF opts.controlFlowObfuscation
  THEN obfuscateFlow(ObfuscatorObject, [s |-> s, count |-> 0]).c.s
  ELSE s

\* inject(node): applyInjections has the points of identifyInjectionPoints
\* to apply, none for a node without children
PassDead(opts, s) ==
  IF opts.deadCodeInjection
  THEN identifyInjectionPoints(ObfuscatorObject, <<>>,
                               [points |-> <<>>, s |-> s]).s
  ELSE s

VMWrapped(ops, regs) == wrap(ObfuscatorObject, ops.v, regs.v, regs.s)

VMConstructed(ops) == VMWrapped(ops, generateRegisters[ops.s])

PassVM(opts, s) ==
  IF opts.vmObfuscation THEN VMConstructed(generateOpcodes[s]) ELSE s

Passes(opts, s) ==
  PassVM(opts, PassDead(opts, PassFlow(opts, PassStrings(opts,
    PassRenaming(opts, s)))))

\* the header comment of the output
HeaderText(sessionId, profile) ==
  <<45, 45, 91, 91, 10, 32, 32, 32, 32, 32, 32, 32, 79, 98, 102, 117, 115,
    99, 97, 116, 101, 100, 32, 85, 115, 105, 110, 103, 32, 67, 101, 108, 101,
    115, 116, 105, 97, 108, 32, 79, 98, 102, 117, 115, 99, 97, 116, 111, 114,
    10, 32, 32, 32, 32, 32, 32, 32, 83, 101, 115, 115, 105, 111, 110, 58, 32>>
  \o sessionId \o <<10, 32, 32, 32, 32, 32, 32, 32, 80, 114, 111, 102, 105, 108, 101,
      58, 32>>
  \o profile \o <<10, 32, 32, 93, 93, 10, 10>>

\* AntiDebug.generateSubtleResponse(): randomChoice of five responses
Responses ==
  << <<45, 45, 32, 9888, 65039, 32, 73, 110, 116, 101, 103, 114, 105, 116,
       121, 32, 99, 104, 101, 99, 107, 32, 102, 97, 105, 108, 101, 100>>,
     <<116, 97, 115, 107, 46, 119, 97, 105, 116, 40, 109, 97, 116, 104, 46,
       114, 97, 110, 100, 111, 109, 40, 41, 41>>,
     <<108, 111, 99, 97, 108, 32, 116, 32, 61, 32, 123, 125, 32, 102, 111,
       114, 32, 105, 32, 61, 32, 49, 44, 32, 49, 48, 48, 32, 100, 111, 32,
       116, 91, 105, 93, 32, 61, 32, 109, 97, 116, 104, 46, 114, 97, 110,
       100, 111, 109, 40, 41, 32, 101, 110, 100>>,
     <<100, 101, 98, 117, 103, 46, 115, 101, 116, 104, 111, 111, 107, 40,
       110, 105, 108, 41>>,
     <<103, 101, 116, 102, 101, 110, 118, 40, 48, 41, 46, 95, 95, 105, 110,
       100, 101, 120, 32, 61, 32, 110, 105, 108>> >>

generateSubtleResponse(s) == randomChoice(s, Responses)

\* AntiDebug.generateTamperingProtection(), one definition per draw, in the
\* order in which the template evaluates them: checkName, hashName,
\* randomInt(0, 0xFFFFFFFF), generateSubtleResponse(), the name of the
\* scheduler, randomInt(1, 5), the name handed to coroutine.wrap
TamperWrapped[text \in Text, name \in TextDrawn] ==
  [v |-> text \o name.v \o <<41, 40, 41, 10>>,
   s |-> name.s]

TamperWait[text \in Text, wait \in IntDrawn] ==
  TamperWrapped[text \o NumberToString(wait.v) \o
    <<41, 10, 32, 32, 101, 110, 100, 10, 101, 110, 100, 10, 10, 99, 111, 114,
      111, 117, 116, 105, 110, 101, 46, 119, 114, 97, 112, 40>>,
    generateIdentifier[wait.s]]

TamperScheduler[checkName \in Text, text \in Text, name \in TextDrawn] ==
  TamperWait[text \o name.v \o
    <<32, 61, 32, 102, 117, 110, 99, 116, 105, 111, 110, 40, 41, 10, 32, 32,
      119, 104, 105, 108, 101, 32, 116, 114, 117, 101, 32, 100, 111, 10, 32,
      32, 32, 32>>
    \o checkName \o
    <<40, 41, 10, 32, 32, 32, 32, 116, 97, 115, 107, 46, 119, 97, 105, 116,
      40>>,
    randomInt[name.s, 1, 5]]

TamperResponse[checkName \in Text, text \in Text, subtle \in TextDrawn] ==
  TamperScheduler[checkName, text \o subtle.v \o
    <<10, 32, 32, 101, 110, 100, 10, 101, 110, 100, 10, 10, 45, 45, 32, 83,
      99, 104, 101, 100, 117, 108, 101, 32, 116, 97, 109, 112, 101, 114, 105,
      110, 103, 32, 99, 104, 101, 99, 107, 10, 108, 111, 99, 97, 108, 32>>,
    generateIdentifier[subtle.s]]

TamperExpected[checkName \in Text, text \in Text, expected \in [v : Int \X Int,
    s : Word32]] ==
  TamperResponse[checkName, text \o WordToString(expected.v) \o
    <<32, 116, 104, 101, 110, 10, 32, 32, 32, 32>>,
    generateSubtleResponse(expected.s)]

TamperHash[checkName \in Text, hashName \in TextDrawn] ==
  TamperExpected[checkName,
    <<10, 108, 111, 99, 97, 108, 32>>
    \o checkName \o
    <<32, 61, 32, 102, 117, 110, 99, 116, 105, 111, 110, 40, 41, 10, 32, 32,
      108, 111, 99, 97, 108, 32>>
    \o hashName.v \o
    <<32, 61, 32, 48, 10, 32, 32, 108, 111, 99, 97, 108, 32, 99, 111, 100,
      101, 32, 61, 32, 100, 101, 98, 117, 103, 46, 103, 101, 116, 105, 110,
      102, 111, 40, 49, 44, 32, 34, 83, 34, 41, 46, 115, 111, 117, 114, 99,
      101, 10, 32, 32, 102, 111, 114, 32, 105, 32, 61, 32, 49, 44, 32, 35,
      99, 111, 100, 101, 32, 100, 111, 10, 32, 32, 32, 32>>
    \o hashName.v \o <<32, 61, 32, 40>> \o hashName.v \o
    <<32, 42, 32, 51, 49, 32, 43, 32, 115, 116, 114, 105, 110, 103, 46, 98,
      121, 116, 101, 40, 99, 111, 100, 101, 44, 32, 105, 41, 41, 32, 37, 32,
      48, 120, 70, 70, 70, 70, 70, 70, 70, 70, 10, 32, 32, 101, 110, 100, 10,
      32, 32, 105, 102, 32>>
    \o hashName.v \o <<32, 126, 61, 32>>,
    randomWord[hashName.s]]

TamperCheck[checkName \in TextDrawn] ==
  TamperHash[checkName.v, generateIdentifier[checkName.s]]

generateTamperingProtection[s \in Word32] == TamperCheck[generateIdentifier[s]]

\* AntiDebug.generateProtection(): the first line, then the snippet of each
\* option that is set. integrityChecks, environmentDetection,
\* timingProtection and memoryProtection are off wherever the model calls
\* it (their snippets print doubles).
ProtectionText(id) ==
  [v |-> <<45, 45, 32, 65, 110, 116, 105, 45, 116, 97, 109, 112, 101, 114,
           105, 110, 103, 32, 112, 114, 111, 116, 101, 99, 116, 105, 111,
           110, 32, 40, 83, 101, 115, 115, 105, 111, 110, 58, 32>>
         \o id.v \o <<41, 10>>,
   s |-> id.s]

SnippetAdded(code, snippet) == [v |-> code.v \o snippet.v, s |-> snippet.s]

ProtectionWith(opts, code) ==
  IF opts.antiTampering
  THEN SnippetAdded(code, generateTamperingProtection[code.s])
  ELSE code

generateProtection(opts, s) ==
  ProtectionWith(opts, ProtectionText(generateSessionId[s]))

\* obfuscated += protectionCode + '\n\n'
Terminated(code) == [v |-> code.v \o <<10, 10>>, s |-> code.s]

Prologue(opts, s) ==
  IF opts.antiDebug \/ opts.antiTampering \/ opts.integrityChecks
  THEN Terminated(generateProtection(opts, s))
  ELSE [v |-> <<>>, s |-> s]

\* Buffer.byteLength(str, 'utf8'): one to three bytes for a code unit, four
\* for a surrogate pair, three (U+FFFD) for a surrogate without its partner
Paired(str, i) ==
  \/ IsHigh(str[i]) /\ i < Len(str) /\ IsLow(str[i + 1])
  \/ IsLow(str[i]) /\ i > 1 /\ IsHigh(str[i - 1])

UnitLength(str, i) ==
  IF Paired(str, i) THEN 2
  ELSE IF str[i] < 128 THEN 1
  ELSE IF str[i] < 2048 THEN 2
  ELSE 3

RECURSIVE ByteLengthRange(_, _, _)
ByteLengthRange(str, from, to) ==
  IF from > to THEN 0
  ELSE IF from = to THEN UnitLength(str, from)
  ELSE ByteLengthRange(str, from, (from + to) \div 2)
       + ByteLengthRange(str, ((from + to) \div 2) + 1, to)

byteLength(str) == ByteLengthRange(str, 1, Len(str))

\* generateChecksum(code): hash = ((hash << 5) - hash) + charCodeAt(i), then
\* hash & hash (ToInt32), over the UTF-16 code units of the code
HashStep(hash, char) ==
  <<(31 * hash[1] + ((31 * hash[2] + char) \div 65536)) % 65536,
    (31 * hash[2] + char) % 65536>>

\* the loop over the code units, split in halves; the hash of the left half
\* is computed before the right half starts
HashRange[code \in Text, from \in Nat, to \in Nat, hash \in Word32] ==
  IF from > to THEN hash
  ELSE IF from = to THEN HashStep(hash, code[from])
  ELSE HashRange[code, ((from + to) \div 2) + 1, to,
                 HashRange[code, from, (from + to) \div 2, hash]]

\* n.toString(16) of an int32: the hexadecimal digits of |n| without leading
\* zeros, after a '-' if n < 0
HexDigit(d) == IF d < 10 THEN 48 + d ELSE 87 + d

RECURSIVE HexDigits(_)
HexDigits(n) ==
  IF n < 16 THEN <<HexDigit(n)>>
  ELSE HexDigits(n \div 16) \o <<HexDigit(n % 16)>>

HexHalf(n) ==
  <<HexDigit(n \div 4096), HexDigit((n \div 256) % 16),
    HexDigit((n \div 16) % 16), HexDigit(n % 16)>>

HexOf(w) == IF w[1] = 0 THEN HexDigits(w[2]) ELSE HexDigits(w[1]) \o HexHalf(w[2])

\* -n for an int32 n < 0 held as the unsigned <<hi, lo>>
Negated(w) ==
  IF w[2] = 0 THEN <<65536 - w[1], 0>> ELSE <<65535 - w[1], 65536 - w[2]>>

toString16(w) ==
  IF w[1] >= 32768 THEN <<45>> \o HexOf(Negated(w)) ELSE HexOf(w)

generateChecksum(code) == toString16(HashRange[code, 1, Len(code), <<0, 0>>])

\* the value obfuscate returns (expansionRatio and securityLevel left out)
Result(text, code) ==
  [code |-> code, originalSize |-> byteLength(text),
   obfuscatedSize |-> byteLength(code), checksum |-> generateChecksum(code)]

Finished(o, text, final) ==
  [entropy |-> final.s, sessionId |-> o.sessionId,
   result |-> Result(text, final.v)]

Assembled(o, text, opts, prologue) ==
  Finished(o, text,
           applyFinalTransformations(
             HeaderText(o.sessionId, opts.securityProfile) \o prologue.v
               \o text, prologue.s))

\* obfuscate(code, options), sessionSeed being what generateSeed() returned
obfuscate(o, text, opts, sessionSeed) ==
  Assembled(o, text, opts, Prologue(opts, Passes(opts, setSeed(sessionSeed))))

\* new Obfuscator(): the oracle is seeded from the clock and Math.random(),
\* then sessionId = generateSessionId()
NewObfuscator(id) == [entropy |-> id.s, sessionId |-> id.v, result |-> <<>>]

Options(passes, antiDebug, antiTampering, timingProtection) ==
  [variableRenaming |-> passes, stringEncryption |-> passes,
   controlFlowObfuscation |-> passes, deadCodeInjection |-> passes,
   vmObfuscation |-> passes, antiDebug |-> antiDebug,
   antiTampering |-> antiTampering, integrityChecks |-> FALSE,
   environmentDetection |-> FALSE, timingProtection |-> timingProtection,
   memoryProtection |-> FALSE,
   securityProfile |-> <<115, 116, 97, 110, 100, 97, 114, 100>>]

\* the option sets handed to obfuscate: timingProtection is set only where
\* obfuscate does not call generateProtection
OptionSets ==
  {Options(p, d, t, FALSE) : p, d, t \in BOOLEAN}
    \cup {Options(p, FALSE, FALSE, TRUE) : p \in BOOLEAN}

\* print("hi")  and  local x = 1 \n print(x)
Sources ==
  {<<112, 114, 105, 110, 116, 40, 34, 104, 105, 34, 41>>,
   <<108, 111, 99, 97, 108, 32, 120, 32, 61, 32, 49, 10, 112, 114, 105, 110,
     116, 40, 120, 41>>}

\* the seeds the clock and Math.random() give the oracle of the constructor
ConstructorSeeds == {<<0, 1>>, <<32768, 7>>}

ObfInit ==
  /\ \E seed \in ConstructorSeeds :
       obfuscators = [i \in 1..2 |-> NewObfuscator(generateSessionId[seed])]
  /\ source \in Sources
  /\ options \in OptionSets
  /\ entropy = <<0, 0>>
  /\ pc = "idle"
  /\ program = <<>>
  /\ ast = <<>>
  /\ IdleRen
  /\ IdleFlow
  /\ IdleDead
  /\ IdleVM
  /\ IdleEnc
  /\ IdleWeb
  /\ IdleParse
  /\ IdleSanitize
  /\ IdleShare
  /\ IdleTests
  /\ IdleOracle
  /\ IdleDispatch
  /\ IdleBytes
  /\ IdleInject
  /\ IdleCache

\* one of the two Obfuscator objects runs obfuscate(source, options);
\* generateSeed() returns any 32-bit value
Obfuscate(i) ==
  /\ obfuscators[i].result = <<>>
  /\ \E sessionSeed \in Seeds :
       obfuscators' = [obfuscators EXCEPT
                         ![i] = obfuscate(@, source, options, sessionSeed)]
  /\ UNCHANGED <<entropy, pc, program, ast, source, options, notObf>>

ObfNext == \E i \in 1..2 : Obfuscate(i)

SpecObf == ObfInit /\ [][ObfNext]_vars

\* C1: determinism. Two runs of obfuscate on the same source and options,
\* started from the same oracle seed, return the same code.
C1_Deterministic ==
  (obfuscators[1].result # <<>> /\ obfuscators[2].result # <<>>) =>
    obfuscators[1].result.code = obfuscators[2].result.code

\* the text of a string literal of the source: "hi"
HiLiteral == <<34, 104, 105, 34>>

\* C3: with stringEncryption enabled the returned code contains no string
\* literal of the input verbatim.
C3_NoLiteralVerbatim ==
  \A i \in 1..2 :
    (/\ obfuscators[i].result # <<>>
     /\ options.stringEncryption
     /\ Includes(source, HiLiteral)) =>
      ~Includes(obfuscators[i].result.code, HiLiteral)


\* the six flags of the anti-analysis prologue
PrologueFlags ==
  {"antiDebug", "antiTampering", "integrityChecks", "environmentDetection",
   "timingProtection", "memoryProtection"}

\* the text every prologue starts with and the text of the snippets of
\* antiTampering and of timingProtection
PrologueHead ==
  <<45, 45, 32, 65, 110, 116, 105, 45, 116, 97, 109, 112, 101, 114, 105, 110,
    103, 32, 112, 114, 111, 116, 101, 99, 116, 105, 111, 110, 32, 40, 83,
    101, 115, 115, 105, 111, 110, 58, 32>>

SnippetMarks ==
  [antiTampering |-> <<45, 45, 32, 83, 99, 104, 101, 100, 117, 108, 101, 32, 116, 97, 109,
      112, 101, 114, 105, 110, 103, 32, 99, 104, 101, 99, 107>>,
   timingProtection |-> <<45, 45, 32, 83, 116, 97, 114, 116, 32, 116, 105, 109, 105,
       110, 103,
      32, 109, 111, 110, 105, 116, 111, 114>>]

\* C11: the prologue is in the output if and only if one of the six flags
\* is set, and each set flag contributes its own snippet.
C11_PrologueIffFlag ==
  \A i \in 1..2 :
    obfuscators[i].result # <<>> =>
      /\ Includes(obfuscators[i].result.code, PrologueHead)
           <=> (\E f \in PrologueFlags : options[f])
      /\ \A f \in DOMAIN SnippetMarks :
           options[f] => Includes(obfuscators[i].result.code, SnippetMarks[f])

\* C12: the size bound obfuscatedSize <= 20 * originalSize.
C12_SizeBound ==
  \A i \in 1..2 :
    obfuscators[i].result # <<>> =>
      obfuscators[i].result.obfuscatedSize
        <= 20 * obfuscators[i].result.originalSize

\* the UTF-8 bytes of a text, and the 16 hexadecimal digits of a 32-bit hash
BytesAt(str, i) ==
  IF IsHigh(str[i]) /\ i < Len(str) /\ IsLow(str[i + 1])
  THEN Utf8Of(CodePoint(str[i], str[i + 1]))
  ELSE IF IsLow(str[i]) /\ i > 1 /\ IsHigh(str[i - 1]) THEN <<>>
  ELSE IF IsHigh(str[i]) \/ IsLow(str[i]) THEN <<239, 191, 189>>
  ELSE Utf8Of(str[i])

RECURSIVE BytesRange(_, _, _)
BytesRange(str, from, to) ==
  IF from > to THEN <<>>
  ELSE IF from = to THEN BytesAt(str, from)
  ELSE BytesRange(str, from, (from + to) \div 2)
       \o BytesRange(str, ((from + to) \div 2) + 1, to)

Utf8Bytes(str) == BytesRange(str, 1, Len(str))

Hex16(w) == <<48, 48, 48, 48, 48, 48, 48, 48>> \o HexHalf(w[1]) \o HexHalf(w[2])

ByteHash(bytes) == HashRange[bytes, 1, Len(bytes), <<0, 0>>]

\* C14: the checksum is the 16 hexadecimal digits, without a sign, of the
\* hash h <- (h << 5) - h + byte folded over the bytes of the output with
\* 32-bit wrapping, from h = 0.
C14_ChecksumOfBytes ==
  \A i \in 1..2 :
    obfuscators[i].result # <<>> =>
      obfuscators[i].result.checksum
        = Hex16(ByteHash(Utf8Bytes(obfuscators[i].result.code)))

\* ------------------------------------------------------------------------
\* The HTTP layer: SecurityMiddleware, SecurityAnalyzer and the routes
\* ------------------------------------------------------------------------

\* A source text is described here by what the handlers read of it: its
\* length in UTF-16 code units, the bytes a unit takes in UTF-8, and what
\* the analyzer finds in it. The texts hold none of the escape sequences
\* sanitizeInput removes. An options object is a function from the keys it
\* has to their values.
CodeOf(units, width, traits) ==
  [units |-> units, width |-> width, traits |-> traits]

\* Buffer.byteLength(code, 'utf8')
byteLengthOf(code) == code.units * code.width

\* sanitizeInput(input): sanitized.substring(0, 1000000)
MaxSanitized == 1000000

sanitizeInput(input) ==
  IF input.units > MaxSanitized THEN [input EXCEPT !.units = MaxSanitized]
  ELSE input

\* SecurityAnalyzer.analyzeCode(code): the fields the routes read
Penalty(traits) ==
  (IF traits.dangerous THEN 30 ELSE 0) + (IF traits.suspicious THEN 20 ELSE 0)

ThreatsOf(traits) ==
  (IF traits.dangerous THEN 1 ELSE 0) + (IF traits.suspicious THEN 1 ELSE 0)

analyzeCode(code) ==
  [securityScore |-> 100 - Penalty(code.traits),
   threats |-> ThreatsOf(code.traits),
   entropyBelow4 |-> code.traits.entropyBelow4]

\* SecurityAnalyzer.generateSecurityProfile(analysis, options):
\* suggestedOptions = {...options}, then the assignments
SuggestedByScore(analysis, opts) ==
  IF analysis.securityScore < 60
  THEN [obfuscationLevel |-> 10, vmObfuscation |-> TRUE, antiDebug |-> TRUE,
        antiTampering |-> TRUE, integrityChecks |-> TRUE] @@ opts
  ELSE IF analysis.securityScore < 80
  THEN [obfuscationLevel |-> 8, vmObfuscation |-> TRUE, antiDebug |-> TRUE]
         @@ opts
  ELSE [obfuscationLevel |-> 6] @@ opts

SuggestedByThreats(analysis, suggested) ==
  IF analysis.threats > 0 THEN [antiTampering |-> TRUE] @@ suggested
  ELSE suggested

SuggestedByEntropy(analysis, suggested) ==
  IF analysis.entropyBelow4
  THEN [stringEncryption |-> TRUE, variableRenaming |-> TRUE] @@ suggested
  ELSE suggested

generateSecurityProfile(analysis, opts) ==
  [suggestedOptions |->
     SuggestedByEntropy(analysis,
       SuggestedByThreats(analysis, SuggestedByScore(analysis, opts)))]

\* POST /obfuscate: defaultOptions
defaultOptions ==
  [stringEncryption |-> TRUE, variableRenaming |-> TRUE,
   controlFlowObfuscation |-> TRUE, deadCodeInjection |-> TRUE,
   numberEncoding |-> TRUE, functionWrapping |-> TRUE,
   vmObfuscation |-> FALSE, antiDebug |-> FALSE, antiTampering |-> FALSE,
   integrityChecks |-> FALSE, environmentDetection |-> FALSE,
   timingProtection |-> FALSE, constantFolding |-> TRUE,
   instructionSubstitution |-> TRUE, opcodeRandomization |-> FALSE,
   stackRandomization |-> FALSE, memoryProtection |-> FALSE,
   obfuscationLevel |-> 5, securityProfile |-> "professional",
   generateReport |-> FALSE, includeWatermark |-> TRUE,
   optimizeOutput |-> FALSE, preserveLineNumbers |-> FALSE,
   addChecksum |-> TRUE, mutationLevel |-> 3]

\* {...defaultOptions, ...options, ...securityProfile.suggestedOptions}, then
\* the assignments made for a security score below 60 or below 80
ScoreApplied(analysis, merged) ==
  IF analysis.securityScore < 60
  THEN [obfuscationLevel |-> 10, vmObfuscation |-> TRUE, antiDebug |-> TRUE,
        antiTampering |-> TRUE] @@ merged
  ELSE IF analysis.securityScore < 80
  THEN [obfuscationLevel |-> 8, vmObfuscation |-> TRUE] @@ merged
  ELSE merged

mergedOptions(analysis, opts) ==
  ScoreApplied(analysis,
    generateSecurityProfile(analysis, opts).suggestedOptions
      @@ opts @@ defaultOptions)

\* what a handler has done: the status it sent and the arguments of its
\* calls of obfuscator.obfuscate
Answer(status, calls) == [status |-> status, calls |-> calls]

Call(code, opts) == [code |-> code, options |-> opts]

\* POST /obfuscate (the request is the first of its client: no cache hit)
Obfuscated(sanitizedCode, opts) ==
  IF sanitizedCode.units = 0 THEN Answer(400, <<>>)
  ELSE IF byteLengthOf(sanitizedCode) > 5 * 1024 * 1024 THEN Answer(413, <<>>)
  ELSE Answer(200, <<Call(sanitizedCode, mergedOptions(analyzeCode(sanitizedCode), opts))>>)

postObfuscate(req) ==
  IF req.code.units = 0 THEN Answer(400, <<>>)
  ELSE Obfuscated(sanitizeInput(req.code), req.options)

\* options.obfuscationLevel || 5 and options.securityProfile || 'professional'
LevelOr(opts, level) ==
  IF "obfuscationLevel" \in DOMAIN opts /\ opts.obfuscationLevel # 0
  THEN opts.obfuscationLevel ELSE level

ProfileOr(opts, profile) ==
  IF "securityProfile" \in DOMAIN opts /\ opts.securityProfile # ""
  THEN opts.securityProfile ELSE profile

\* POST /obfuscate/batch with one file {name, code}: a file without code is
\* reported in errors, the reply is sent with status 200
batchOptions(opts) == [obfuscationLevel |-> LevelOr(opts, 5)] @@ opts

postBatch(req) ==
  IF req.code.units = 0 THEN Answer(200, <<>>)
  ELSE Answer(200, <<Call(sanitizeInput(req.code), batchOptions(req.options))>>)

\* POST /download
downloadOptions(opts) ==
  opts @@ [obfuscationLevel |-> LevelOr(opts, 5),
           securityProfile |-> ProfileOr(opts, "professional")]

postDownload(req) ==
  IF req.code.units = 0 THEN Answer(400, <<>>)
  ELSE Answer(200, <<Call(sanitizeInput(req.code), downloadOptions(req.options))>>)

\* POST /preview
previewOptions ==
  [stringEncryption |-> TRUE, variableRenaming |-> TRUE,
   controlFlowObfuscation |-> FALSE, deadCodeInjection |-> FALSE,
   vmObfuscation |-> FALSE, obfuscationLevel |-> 2]

postPreview(req) ==
  IF req.code.units = 0 THEN Answer(400, <<>>)
  ELSE Answer(200, <<Call(sanitizeInput(req.code), previewOptions)>>)

\* the requests: sizes on both sides of 1000000 code units and of 5 MiB, in
\* ASCII and in three-byte characters; the body stays below the 10 MB that
\* express.json accepts
Traits ==
  [dangerous : BOOLEAN, suspicious : BOOLEAN, entropyBelow4 : BOOLEAN]

Sizes ==
  {<<0, 1>>, <<20, 1>>, <<1000001, 1>>, <<5242880, 1>>, <<5242881, 1>>,
   <<1747627, 3>>, <<3000000, 3>>}

Codes == {CodeOf(size[1], size[2], traits) : size \in Sizes, traits \in Traits}

Profiles == {"basic", "standard", "professional", "enterprise", "military"}

NoOptions == [k \in {} |-> TRUE]

RequestOptions ==
  {NoOptions} \cup {[securityProfile |-> p] : p \in Profiles}
    \cup {[vmObfuscation |-> FALSE], [vmObfuscation |-> TRUE],
          [antiTampering |-> FALSE], [obfuscationLevel |-> 3],
          [stringEncryption |-> FALSE, variableRenaming |-> FALSE]}

Routes == {"/obfuscate", "/obfuscate/batch", "/download", "/preview"}

\* the body is {"code":"..."} at least
Requests ==
  {[path |-> path, code |-> code, options |-> opts,
    contentLength |-> byteLengthOf(code) + 11] :
     path \in Routes, code \in Codes, opts \in RequestOptions}

WebInit ==
  /\ request \in Requests
  /\ response = <<>>
  /\ pc = "received"
  /\ entropy = <<0, 0>>
  /\ program = <<>>
  /\ ast = <<>>
  /\ IdleRen
  /\ IdleFlow
  /\ IdleDead
  /\ IdleVM
  /\ IdleEnc
  /\ IdleObf
  /\ IdleParse
  /\ IdleSanitize
  /\ IdleShare
  /\ IdleTests
  /\ IdleOracle
  /\ IdleDispatch
  /\ IdleBytes
  /\ IdleInject
  /\ IdleCache

\* SecurityMiddleware.validateRequest for a JSON request that is the first
\* of its client (no earlier timestamp, nothing cached)
ValidateRequest ==
  /\ pc = "received"
  /\ IF request.contentLength > 10 * 1024 * 1024
     THEN pc' = "answered" /\ response' = Answer(413, <<>>)
     ELSE pc' = "validated" /\ response' = response
  /\ UNCHANGED <<entropy, program, ast, request, notWeb>>

Replied(answer) ==
  /\ pc = "validated"
  /\ pc' = "answered"
  /\ response' = answer
  /\ UNCHANGED <<entropy, program, ast, request, notWeb>>

PostObfuscate == request.path = "/obfuscate" /\ Replied(postObfuscate(request))

PostBatch == request.path = "/obfuscate/batch" /\ Replied(postBatch(request))

PostDownload == request.path = "/download" /\ Replied(postDownload(request))

PostPreview == request.path = "/preview" /\ Replied(postPreview(request))

WebNext ==
  \/ ValidateRequest
  \/ PostObfuscate
  \/ PostBatch
  \/ PostDownload
  \/ PostPreview

SpecWeb == WebInit /\ [][WebNext]_vars

\* C13: a source larger than 5 MiB is refused with status 413 on every
\* entry path, and obfuscate is not called on a truncated version of it.
C13_OversizeRefused ==
  (pc = "answered" /\ byteLengthOf(request.code) > 5 * 1024 * 1024) =>
    (response.status = 413 /\ response.calls = <<>>)

\* C15: every option key the caller supplies reaches Obfuscator.obfuscate
\* with the caller's value (on the paths that take options).
C15_CallerKeysKept ==
  (pc = "answered" /\ request.path # "/preview") =>
    \A i \in DOMAIN response.calls :
      \A k \in DOMAIN request.options :
        /\ k \in DOMAIN response.calls[i].options
        /\ response.calls[i].options[k] = request.options[k]

\* config/security-profiles.js: the techniques each preset lists
presets ==
  [basic |->
     {"stringEncryption", "variableRenaming"},
   standard |->
     {"stringEncryption", "variableRenaming", "controlFlowObfuscation",
      "deadCodeInjection", "antiDebug"},
   professional |->
     {"stringEncryption", "variableRenaming", "controlFlowObfuscation",
      "deadCodeInjection", "vmObfuscation", "antiDebug", "antiTampering",
      "integrityChecks"},
   enterprise |->
     {"stringEncryption", "variableRenaming", "controlFlowObfuscation",
      "deadCodeInjection", "vmObfuscation", "antiDebug", "antiTampering",
      "integrityChecks", "environmentDetection", "timingProtection"},
   military |->
     {"stringEncryption", "variableRenaming", "controlFlowObfuscation",
      "deadCodeInjection", "vmObfuscation", "antiDebug", "antiTampering",
      "integrityChecks", "environmentDetection", "timingProtection",
      "memoryProtection", "stackRandomization", "opcodeRandomization"}]

\* the flags Obfuscator.obfuscate and AntiDebug.generateProtection read, and
\* those of them that are set in the options of a call
TechniqueKeys ==
  {"variableRenaming", "stringEncryption", "controlFlowObfuscation",
   "deadCodeInjection", "vmObfuscation", "antiDebug", "antiTampering",
   "integrityChecks", "environmentDetection", "timingProtection",
   "memoryProtection"}

Techniques(opts) == {k \in TechniqueKeys \cap DOMAIN opts : opts[k]}

\* C16: a request that names a profile and no other key runs exactly the
\* techniques the preset of that profile lists.
C16_ProfileRunsPreset ==
  (/\ pc = "answered"
   /\ request.path = "/obfuscate"
   /\ DOMAIN request.options = {"securityProfile"}) =>
    \A i \in DOMAIN response.calls :
      Techniques(response.calls[i].options)
        = presets[request.options.securityProfile] \cap TechniqueKeys

\* ------------------------------------------------------------------------
\* LuauParser: tokenize
\* ------------------------------------------------------------------------

\* code[i] of a 1-based position, -1 outside the text
CharAt(code, i) == IF i \in DOMAIN code THEN code[i] ELSE -1

IsDigit(c)     == c \in 48..57                                     \* \d
IsNameStart(c) == c \in 65..90 \/ c \in 97..122 \/ c = 95           \* [a-zA-Z_]
IsWordChar(c)  == IsDigit(c) \/ IsNameStart(c)                      \* \w

\* \s
WhiteSpace ==
  {9, 10, 11, 12, 13, 32, 160, 5760, 8232, 8233, 8239, 8287, 12288, 65279}
    \cup (8192..8202)

\* what . does not match
LineTerminators == {10, 13, 8232, 8233}

\* \b in front of position i
Boundary(code, i) == IsWordChar(CharAt(code, i - 1)) # IsWordChar(CharAt(code, i))

\* The matchers give the position of the last unit of the match of their
\* pattern that starts at i, or 0 when the pattern does not match there.

\* --[^\n]*
RECURSIVE LineEnd(_, _)
LineEnd(code, i) ==
  IF i > Len(code) \/ code[i] = 10 THEN i - 1 ELSE LineEnd(code, i + 1)

CommentEnd(code, i) ==
  IF CharAt(code, i) = 45 /\ CharAt(code, i + 1) = 45
  THEN LineEnd(code, i + 2) ELSE 0

\* (['"])(?:\\.|(?!\1).)*\1 : the loop takes an escape pair first, then any
\* unit that is not the quote, and gives units back until the quote follows
OrElse(end, other) == IF end # 0 THEN end ELSE other

RECURSIVE StringBody(_, _, _)
StringBody(code, j, quote) ==
  OrElse(IF CharAt(code, j) = 92 /\ j + 1 <= Len(code)
            /\ code[j + 1] \notin LineTerminators
         THEN StringBody(code, j + 2, quote) ELSE 0,
  OrElse(IF j <= Len(code) /\ code[j] # quote /\ code[j] \notin LineTerminators
         THEN StringBody(code, j + 1, quote) ELSE 0,
         IF CharAt(code, j) = quote THEN j ELSE 0))

StringEnd(code, i) ==
  IF CharAt(code, i) \in {34, 39} THEN StringBody(code, i + 1, code[i]) ELSE 0

\* \d+ and \w* taken greedily from i
RECURSIVE DigitsEnd(_, _)
DigitsEnd(code, i) ==
  IF IsDigit(CharAt(code, i)) THEN DigitsEnd(code, i + 1) ELSE i - 1

RECURSIVE WordEnd(_, _)
WordEnd(code, i) ==
  IF IsWordChar(CharAt(code, i)) THEN WordEnd(code, i + 1) ELSE i - 1

\* \b\d+(?:\.\d+)?\b : the fraction is given back when a word unit follows it
Whole(code, d) == IF IsWordChar(CharAt(code, d + 1)) THEN 0 ELSE d

Fraction(code, d, f) ==
  IF IsWordChar(CharAt(code, f + 1)) THEN Whole(code, d) ELSE f

NumberFrom(code, d) ==
  IF CharAt(code, d + 1) = 46 /\ IsDigit(CharAt(code, d + 2))
  THEN Fraction(code, d, DigitsEnd(code, d + 2))
  ELSE Whole(code, d)

NumberEnd(code, i) ==
  IF Boundary(code, i) /\ IsDigit(CharAt(code, i))
  THEN NumberFrom(code, DigitsEnd(code, i)) ELSE 0

\* function local if then else elseif end for while do repeat until return
\* break in and or not
Keywords ==
  {<<102, 117, 110, 99, 116, 105, 111, 110>>, <<108, 111, 99, 97, 108>>, <<105,
      102>>, <<116, 104, 101, 110>>, <<101, 108, 115, 101>>, <<101, 108, 115, 101,
      105, 102>>, <<101, 110, 100>>,
   <<102, 111, 114>>, <<119, 104, 105, 108, 101>>, <<100, 111>>, <<114, 101, 112,
       101, 97, 116>>, <<117, 110, 116, 105, 108>>, <<114, 101, 116, 117, 114, 110>>,
       <<98, 114, 101, 97, 107>>,
   <<105, 110>>, <<97, 110, 100>>, <<111, 114>>, <<110, 111, 116>>}

\* \b(?:function|...|not)\b : the word that starts at i is a keyword
KeywordEnd(code, i) ==
  IF /\ Boundary(code, i)
     /\ IsNameStart(CharAt(code, i))
     /\ SubSeq(code, i, WordEnd(code, i)) \in Keywords
  THEN WordEnd(code, i) ELSE 0

\* \b[a-zA-Z_]\w*\b
IdentifierEnd(code, i) ==
  IF Boundary(code, i) /\ IsNameStart(CharAt(code, i))
  THEN WordEnd(code, i) ELSE 0

\* [=~<>]=?|\.\.\.?|[\+\-\*/%^#&|]|\.\.?
OperatorEnd(code, i) ==
  IF CharAt(code, i) \in {61, 126, 60, 62}
  THEN (IF CharAt(code, i + 1) = 61 THEN i + 1 ELSE i)
  ELSE IF CharAt(code, i) = 46 /\ CharAt(code, i + 1) = 46
  THEN (IF CharAt(code, i + 2) = 46 THEN i + 2 ELSE i + 1)
  ELSE IF CharAt(code, i) \in {43, 45, 42, 47, 37, 94, 35, 38, 124}
  THEN i
  ELSE IF CharAt(code, i) = 46 THEN i
  ELSE 0

\* [\[\](){},;:\.]
PunctuationEnd(code, i) ==
  IF CharAt(code, i) \in {91, 93, 40, 41, 123, 125, 44, 59, 58, 46} THEN i ELSE 0

\* the patterns in the order tokenize tries them
TokenTypes ==
  <<"comment", "string", "number", "keyword", "identifier", "operator",
    "punctuation">>

PatternEnd(type, code, i) ==
  CASE type = "comment"     -> CommentEnd(code, i)
    [] type = "string"      -> StringEnd(code, i)
    [] type = "number"      -> NumberEnd(code, i)
    [] type = "keyword"     -> KeywordEnd(code, i)
    [] type = "identifier"  -> IdentifierEnd(code, i)
    [] type = "operator"    -> OperatorEnd(code, i)
    [] type = "punctuation" -> PunctuationEnd(code, i)

\* {type, value, position}; position counts from 0
Token(type, code, i, end) ==
  [type |-> type, value |-> SubSeq(code, i, end), position |-> i - 1]

\* the first pattern that matches at i; a unit none matches is 'unknown'
RECURSIVE Matched(_, _, _)
Matched(code, i, k) ==
  IF k > Len(TokenTypes) THEN Token("unknown", code, i, i)
  ELSE IF PatternEnd(TokenTypes[k], code, i) # 0
  THEN Token(TokenTypes[k], code, i, PatternEnd(TokenTypes[k], code, i))
  ELSE Matched(code, i, k + 1)

RECURSIVE TokensFrom(_, _)
Pushed(code, token) ==
  <<token>> \o TokensFrom(code, token.position + Len(token.value) + 1)

TokensFrom(code, i) ==
  IF i > Len(code) THEN <<>>
  ELSE IF code[i] \in WhiteSpace THEN TokensFrom(code, i + 1)
  ELSE Pushed(code, Matched(code, i, 1))

tokenize(code) == TokensFrom(code, 1)

\* ------------------------------------------------------------------------
\* LuauParser: parse
\* ------------------------------------------------------------------------

\* The parser object is {tokens, position}; the functions below take the
\* tokens and the position and give back [node, pos], the node built and the
\* position reached, or [thrown], the error that ended the call.
Returned(node, pos)   == [node |-> node, pos |-> pos]
Thrown(name, message) == [thrown |-> [name |-> name, message |-> message]]
Throws(r)             == "thrown" \in DOMAIN r

\* Code behind a test that compares a token's type with a text no type is
\* spelled as ('=', ',', '(', 'then', ...): no token of tokenize takes it
Unreached == [unreached |-> TRUE]

\* the nodes parse builds
Null == [type |-> "null"]
Block(statements)     == [type |-> "Block", statements |-> statements]
Local(names, value)   == [type |-> "Local", names |-> names, value |-> value]
Return(expressions)   == [type |-> "Return", expressions |-> expressions]
Break                 == [type |-> "Break"]
ExpressionStatement(expression) ==
  [type |-> "ExpressionStatement", expression |-> expression]
BinaryOperation(operator, left, right) ==
  [type |-> "BinaryOperation", operator |-> operator, left |-> left,
   right |-> right]
UnaryOperation(operator, argument) ==
  [type |-> "UnaryOperation", operator |-> operator, argument |-> argument]
Variable(name)        == [type |-> "Variable", name |-> name]
Number(value)         == [type |-> "Number", value |-> value]
String(value)         == [type |-> "String", value |-> value]

\* the texts of the token types and of the types consumeToken is asked for
Spelled ==
  [comment |-> <<99, 111, 109, 109, 101, 110, 116>>, string |-> <<115, 116, 114, 105,
      110, 103>>, number |-> <<110, 117, 109, 98, 101, 114>>,
   keyword |-> <<107, 101, 121, 119, 111, 114, 100>>, identifier |-> <<105, 100, 101,
       110, 116, 105, 102, 105, 101, 114>>,
   operator |-> <<111, 112, 101, 114, 97, 116, 111, 114>>, punctuation |-> <<112,
       117, 110, 99, 116, 117, 97, 116, 105, 111, 110>>,
   unknown |-> <<117, 110, 107, 110, 111, 119, 110>>, EOF |-> <<69, 79, 70>>,
       then |-> <<116, 104, 101, 110>>,
   do |-> <<100, 111>>, in |-> <<105, 110>>, until |-> <<117, 110, 116, 105, 108>>] @@
  ("(" :> <<40>>) @@ ("=" :> <<61>>)

\* `Expected ${type}, got ${token.type}`
Expected(type, got) ==
  <<69, 120, 112, 101, 99, 116, 101, 100, 32>> \o Spelled[type] \o <<44, 32, 103,
      111, 116, 32>> \o Spelled[got]

\* `Unexpected token: ${token.value}`
Unexpected(value) == <<85, 110, 101, 120, 112, 101, 99, 116, 101, 100, 32, 116, 111,
    107, 101, 110, 58, 32>> \o value

\* Expected function name
ExpectedName == <<69, 120, 112, 101, 99, 116, 101, 100, 32, 102, 117, 110, 99, 116,
    105, 111, 110, 32, 110, 97, 109, 101>>

\* the engine's message for a recursion that never returns
StackExceeded == <<77, 97, 120, 105, 109, 117, 109, 32, 99, 97, 108, 108, 32, 115,
    116, 97, 99, 107, 32, 115, 105, 122, 101, 32, 101, 120, 99, 101, 101, 100, 101,
    100>>

EOF == [type |-> "EOF", value |-> <<>>]

\* this.tokens[this.position] || EOF
currentToken(ts, p) == IF p + 1 \in DOMAIN ts THEN ts[p + 1] ELSE EOF

peekToken(ts, p, offset) ==
  IF p + offset + 1 \in DOMAIN ts THEN ts[p + offset + 1] ELSE EOF

matchToken(ts, p, type) == currentToken(ts, p).type = type

\* consumeToken(type); "" is the call without a type
Consumed(token, pos) == [token |-> token, pos |-> pos]

consumeToken(ts, p, type) ==
  IF type # "" /\ currentToken(ts, p).type # type
  THEN Thrown("Error", Expected(type, currentToken(ts, p).type))
  ELSE Consumed(currentToken(ts, p), p + 1)

\* what follows a consumeToken that has to throw
ThenUnreached(c) == IF Throws(c) THEN c ELSE Unreached

\* precedences[token.value], 0 for undefined. (The lookup also finds the
\* names Object.prototype defines; the texts parsed here use none.)
precedences(value) ==
  CASE value = <<111, 114>> -> 1
    [] value = <<97, 110, 100>> -> 2
    [] value \in {<<60>>, <<62>>, <<60, 61>>, <<62, 61>>, <<126, 61>>, <<61, 61>>} -> 3
    [] value = <<46, 46>> -> 4
    [] value \in {<<43>>, <<45>>} -> 5
    [] value \in {<<42>>, <<47>>, <<37>>} -> 6
    [] value = <<94>> -> 7
    [] OTHER -> 0

\* parseFloat(token.value) of a token \d+(\.\d+)? : the whole part and the
\* digits of the fraction without its trailing zeros (exact for the short
\* numbers parsed here)
RECURSIVE DigitsValue(_)
DigitsValue(digits) ==
  IF digits = <<>> THEN 0
  ELSE 10 * DigitsValue(SubSeq(digits, 1, Len(digits) - 1))
         + (digits[Len(digits)] - 48)

RECURSIVE Trimmed(_)
Trimmed(digits) ==
  IF digits # <<>> /\ digits[Len(digits)] = 48
  THEN Trimmed(SubSeq(digits, 1, Len(digits) - 1)) ELSE digits

parseFloat(text) ==
  [whole    |-> DigitsValue(SubSeq(text, 1, DigitsEnd(text, 1))),
   fraction |-> Trimmed(SubSeq(text, DigitsEnd(text, 1) + 2, Len(text)))]

RECURSIVE parseBinaryExpression(_, _, _)
RECURSIVE parseUnaryExpression(_, _)
RECURSIVE BinaryLoop(_, _, _)

parseExpression(ts, p) == parseBinaryExpression(ts, p, 0)

\* parseVariable: the name, then the loop over '.', '[' and ':'
VariableNamed(ts, c) ==
  IF Throws(c) THEN c
  ELSE IF \/ matchToken(ts, c.pos, ".")
          \/ matchToken(ts, c.pos, "[")
          \/ (matchToken(ts, c.pos, ":")
                /\ peekToken(ts, c.pos, 1).type = "identifier")
  THEN Unreached
  ELSE Returned(Variable(c.token.value), c.pos)

parseVariable(ts, p) == VariableNamed(ts, consumeToken(ts, p, "identifier"))

\* parseFunctionCall at the position parseVariableOrCall went back to: its
\* parsePrimaryExpression finds the identifier again and calls
\* parseVariableOrCall, which calls parseFunctionCall, without end
parseFunctionCall(ts, p) ==
  IF currentToken(ts, p).type = "identifier"
  THEN Thrown("RangeError", StackExceeded)
  ELSE Unreached

VariableOrCall(ts, start, variable) ==
  IF Throws(variable) THEN variable
  ELSE IF \/ matchToken(ts, variable.pos, "(")
          \/ matchToken(ts, variable.pos, "{")
          \/ matchToken(ts, variable.pos, "string")
  THEN parseFunctionCall(ts, start)
  ELSE variable

parseVariableOrCall(ts, p) == VariableOrCall(ts, p, parseVariable(ts, p))

\* ( expression )
Closed(expression, c) ==
  IF Throws(c) THEN c ELSE Returned(expression.node, c.pos)

Parenthesized(ts, expression) ==
  IF Throws(expression) THEN expression
  ELSE Closed(expression, consumeToken(ts, expression.pos, ")"))

parsePrimaryExpression(ts, p) ==
  CASE matchToken(ts, p, "number") ->
         Returned(Number(parseFloat(currentToken(ts, p).value)), p + 1)
    [] matchToken(ts, p, "string") ->
         Returned(String(SubSeq(currentToken(ts, p).value, 2,
                                Len(currentToken(ts, p).value) - 1)), p + 1)
    [] matchToken(ts, p, "identifier") -> parseVariableOrCall(ts, p)
    [] matchToken(ts, p, "(") -> Parenthesized(ts, parseExpression(ts, p + 1))
    [] matchToken(ts, p, "{") -> Unreached
    [] OTHER -> Thrown("Error", Unexpected(currentToken(ts, p).value))

UnaryOf(operator, argument) ==
  IF Throws(argument) THEN argument
  ELSE Returned(UnaryOperation(operator.value, argument.node), argument.pos)

parseUnaryExpression(ts, p) ==
  IF matchToken(ts, p, "-") \/ matchToken(ts, p, "not") \/ matchToken(ts, p, "#")
  THEN UnaryOf(currentToken(ts, p), parseUnaryExpression(ts, p + 1))
  ELSE parsePrimaryExpression(ts, p)

\* left = {BinaryOperation, operator, left, right}, and the loop again
BinaryJoined(ts, left, operator, right, minPrecedence) ==
  IF Throws(right) THEN right
  ELSE BinaryLoop(ts, Returned(BinaryOperation(operator.value, left.node,
                                               right.node), right.pos),
                  minPrecedence)

\* the right operand is parsed with precedence + 1 whatever the operator
BinaryLoop(ts, left, minPrecedence) ==
  IF Throws(left) THEN left
  ELSE IF \/ precedences(currentToken(ts, left.pos).value) = 0
          \/ precedences(currentToken(ts, left.pos).value) < minPrecedence
  THEN left
  ELSE BinaryJoined(ts, left, currentToken(ts, left.pos),
                    parseBinaryExpression(ts, left.pos + 1,
                      precedences(currentToken(ts, left.pos).value) + 1),
                    minPrecedence)

parseBinaryExpression(ts, p, minPrecedence) ==
  BinaryLoop(ts, parseUnaryExpression(ts, p), minPrecedence)

\* consumeOptionalSemicolon tests matchToken(';')
Semicolon(ts, p) == matchToken(ts, p, ";")

\* parseLocal
LocalNamed(ts, c) ==
  IF Throws(c) THEN c
  ELSE IF \/ matchToken(ts, c.pos, ",")
          \/ matchToken(ts, c.pos, "=")
          \/ Semicolon(ts, c.pos)
  THEN Unreached
  ELSE Returned(Local(<<c.token.value>>, Null), c.pos)

parseLocal(ts, p) ==
  IF matchToken(ts, p + 1, "function") THEN Unreached
  ELSE LocalNamed(ts, consumeToken(ts, p + 1, "identifier"))

\* parseFunction, with parseIdentifierChain
ChainNamed(ts, c) ==
  IF Throws(c) THEN c
  ELSE IF matchToken(ts, c.pos, ".") THEN Unreached
  ELSE ThenUnreached(consumeToken(ts, c.pos, "("))

parseFunction(ts, p) ==
  IF matchToken(ts, p + 1, "identifier")
  THEN ChainNamed(ts, consumeToken(ts, p + 1, "identifier"))
  ELSE Thrown("Error", ExpectedName)

\* parseIf, parseWhile: the condition, then consumeToken('then' / 'do')
Conditioned(ts, condition, word) ==
  IF Throws(condition) THEN condition
  ELSE ThenUnreached(consumeToken(ts, condition.pos, word))

parseIf(ts, p)    == Conditioned(ts, parseExpression(ts, p + 1), "then")
parseWhile(ts, p) == Conditioned(ts, parseExpression(ts, p + 1), "do")

\* parseFor
ForNamed(ts, c) ==
  IF Throws(c) THEN c
  ELSE IF matchToken(ts, c.pos, ",") THEN Unreached
  ELSE ThenUnreached(consumeToken(ts, c.pos, "in"))

parseFor(ts, p) ==
  IF matchToken(ts, p + 1, "identifier") /\ peekToken(ts, p + 1, 1).value = <<61>>
  THEN ThenUnreached(consumeToken(ts, p + 2, "="))
  ELSE ForNamed(ts, consumeToken(ts, p + 1, "identifier"))

\* parseReturn
ReturnOf(ts, expression) ==
  IF Throws(expression) THEN expression
  ELSE IF matchToken(ts, expression.pos, ",") \/ Semicolon(ts, expression.pos)
  THEN Unreached
  ELSE Returned(Return(<<expression.node>>), expression.pos)

parseReturn(ts, p) ==
  IF ~matchToken(ts, p + 1, ";") /\ ~matchToken(ts, p + 1, "EOF")
  THEN ReturnOf(ts, parseExpression(ts, p + 1))
  ELSE Returned(Return(<<>>), p + 1)

\* parseAssignmentOrCall
AssignmentOrCall(ts, expression) ==
  IF Throws(expression) THEN expression
  ELSE IF matchToken(ts, expression.pos, "=") \/ Semicolon(ts, expression.pos)
  THEN Unreached
  ELSE IF expression.node.type = "Call" THEN expression
  ELSE Returned(ExpressionStatement(expression.node), expression.pos)

parseAssignmentOrCall(ts, p) == AssignmentOrCall(ts, parseExpression(ts, p))

RECURSIVE parseBlock(_, _)

\* parseRepeat: the block, then consumeToken('until')
Repeated(ts, body) ==
  IF Throws(body) THEN body
  ELSE ThenUnreached(consumeToken(ts, body.pos, "until"))

parseRepeat(ts, p) == Repeated(ts, parseBlock(ts, p + 1))

\* parseStatement switches on token.value
parseStatement(ts, p) ==
  CASE currentToken(ts, p).value = <<108, 111, 99, 97, 108>>    -> parseLocal(ts, p)
    [] currentToken(ts, p).value = <<102, 117, 110, 99, 116, 105, 111,
        110>> -> parseFunction(ts, p)
    [] currentToken(ts, p).value = <<105, 102>>       -> parseIf(ts, p)
    [] currentToken(ts, p).value = <<102, 111, 114>>      -> parseFor(ts, p)
    [] currentToken(ts, p).value = <<119, 104, 105, 108, 101>>    -> parseWhile(ts, p)
    [] currentToken(ts, p).value = <<114, 101, 112, 101, 97, 116>>   -> parseRepeat(ts, p)
    [] currentToken(ts, p).value = <<114, 101, 116, 117, 114,
        110>>   -> parseReturn(ts, p)
    [] currentToken(ts, p).value = <<98, 114, 101, 97, 107>>    -> Returned(Break, p + 1)
    [] OTHER -> parseAssignmentOrCall(ts, p)

\* parseBlock: statements up to EOF, 'end', 'else' or 'elseif'
RECURSIVE BlockLoop(_, _, _)
BlockPushed(ts, statements, statement) ==
  IF Throws(statement) THEN statement
  ELSE BlockLoop(ts, statement.pos, Append(statements, statement.node))

BlockLoop(ts, p, statements) ==
  IF \/ matchToken(ts, p, "EOF") \/ matchToken(ts, p, "end")
     \/ matchToken(ts, p, "else") \/ matchToken(ts, p, "elseif")
  THEN Returned(Block(statements), p)
  ELSE BlockPushed(ts, statements, parseStatement(ts, p))

parseBlock(ts, p) == BlockLoop(ts, p, <<>>)

\* parse(code): the tree, or the error
Parsed(block) == IF Throws(block) THEN block ELSE [ast |-> block.node]

parse(code) == Parsed(parseBlock(tokenize(code), 0))

\* ------------------------------------------------------------------------
\* LuauParser: generateCode
\* ------------------------------------------------------------------------

\* parts.join(separator)
RECURSIVE JoinedBy(_, _)
JoinedBy(parts, separator) ==
  IF parts = <<>> THEN <<>>
  ELSE IF Len(parts) = 1 THEN parts[1]
  ELSE parts[1] \o separator \o JoinedBy(Tail(parts), separator)

\* value.replace(/"/g, '\\"')
RECURSIVE Escaped(_)
Escaped(value) ==
  IF value = <<>> THEN <<>>
  ELSE (IF value[1] = 34 THEN <<92, 34>> ELSE <<value[1]>>)
         \o Escaped(Tail(value))

\* value.toString() of a number parseFloat gave
NumberText(value) ==
  NumberToString(value.whole)
    \o (IF value.fraction = <<>> THEN <<>> ELSE <<46>> \o value.fraction)

\* the cases of the nodes parse builds; left, operator and right are joined
\* by one space and nothing else is added
RECURSIVE generateCode(_)
generateCode(node) ==
  CASE node.type = "null" -> <<>>
    [] node.type = "Block" ->
         JoinedBy([i \in DOMAIN node.statements |->
                     generateCode(node.statements[i])], <<10>>)
    [] node.type = "Local" ->
         <<108, 111, 99, 97, 108, 32>> \o JoinedBy(node.names, <<44, 32>>)
           \o (IF node.value # Null
               THEN <<32, 61, 32>> \o generateCode(node.value) ELSE <<>>)
    [] node.type = "Return" ->
         IF node.expressions = <<>> THEN <<114, 101, 116, 117, 114, 110>>
         ELSE <<114, 101, 116, 117, 114, 110, 32>>
                \o JoinedBy([i \in DOMAIN node.expressions |->
                               generateCode(node.expressions[i])], <<44, 32>>)
    [] node.type = "ExpressionStatement" -> generateCode(node.expression)
    [] node.type = "Break" -> <<98, 114, 101, 97, 107>>
    [] node.type = "BinaryOperation" ->
         generateCode(node.left) \o <<32>> \o node.operator \o <<32>>
           \o generateCode(node.right)
    [] node.type = "UnaryOperation" ->
         node.operator \o <<32>> \o generateCode(node.argument)
    [] node.type = "Variable" -> node.name
    [] node.type = "Number" -> NumberText(node.value)
    [] node.type = "String" -> <<34>> \o Escaped(node.value) \o <<34>>


\* ------------------------------------------------------------------------
\* The parser under test: parse, generateCode, parse again
\* ------------------------------------------------------------------------

\* programs of the language
\*   local x = 1
\*   x = 1
\*   f(1)
\*   if c then end
\*   local x
\*   x
\*   return
\*   return 1
\*   break
\*   a + b
\*   1.50 + 007
\*   'it'
\*   "a\"b"
\*   x \n y
\*   return a .. b
\*   while x do end
\*   repeat x until y
\*   (a + b) * c
\*   - x
\*   not x
\*   for i = 1, 2 do end
\*   function f() end
\*   -- hi \n x
\*   a.b
ValidPrograms ==
  {<<108, 111, 99, 97, 108, 32, 120, 32, 61, 32, 49>>,
   <<120, 32, 61, 32, 49>>,
   <<102, 40, 49, 41>>,
   <<105, 102, 32, 99, 32, 116, 104, 101, 110, 32, 101, 110, 100>>,
   <<108, 111, 99, 97, 108, 32, 120>>,
   <<120>>,
   <<114, 101, 116, 117, 114, 110>>,
   <<114, 101, 116, 117, 114, 110, 32, 49>>,
   <<98, 114, 101, 97, 107>>,
   <<97, 32, 43, 32, 98>>,
   <<49, 46, 53, 48, 32, 43, 32, 48, 48, 55>>,
   <<39, 105, 116, 39>>,
   <<34, 97, 92, 34, 98, 34>>,
   <<120, 10, 121>>,
   <<114, 101, 116, 117, 114, 110, 32, 97, 32, 46, 46, 32, 98>>,
   <<119, 104, 105, 108, 101, 32, 120, 32, 100, 111, 32, 101, 110, 100>>,
   <<114, 101, 112, 101, 97, 116, 32, 120, 32, 117, 110, 116, 105, 108, 32, 121>>,
   <<40, 97, 32, 43, 32, 98, 41, 32, 42, 32, 99>>,
   <<45, 32, 120>>,
   <<110, 111, 116, 32, 120>>,
   <<102, 111, 114, 32, 105, 32, 61, 32, 49, 44, 32, 50, 32, 100, 111, 32, 101, 110,
       100>>,
   <<102, 117, 110, 99, 116, 105, 111, 110, 32, 102, 40, 41, 32, 101, 110, 100>>,
   <<45, 45, 32, 104, 105, 10, 120>>,
   <<97, 46, 98>>}

\* local =
LocalEquals == <<108, 111, 99, 97, 108, 32, 61>>

\* texts with a token no program has at its place
\*   local =
\*   local 1
\*   x +
\*   )
\*   function (
Malformed ==
  {LocalEquals,
   <<108, 111, 99, 97, 108, 32, 49>>,
   <<120, 32, 43>>,
   <<41>>,
   <<102, 117, 110, 99, 116, 105, 111, 110, 32, 40>>}

\* further texts
\*   f "x"
\*   x;
\*   12a
\*   local function
\*   for k in
\*   a ..
FurtherTexts ==
  {<<102, 32, 34, 120, 34>>,
   <<120, 59>>,
   <<49, 50, 97>>,
   <<108, 111, 99, 97, 108, 32, 102, 117, 110, 99, 116, 105, 111, 110>>,
   <<102, 111, 114, 32, 107, 32, 105, 110>>,
   <<97, 32, 46, 46>>}

\* or and < .. + * ^
ChainOperators ==
  {<<111, 114>>, <<97, 110, 100>>, <<60>>, <<46, 46>>, <<43>>, <<42>>, <<94>>}

\* a op1 b op2 c
Chain(op1, op2) ==
  <<97, 32>> \o op1 \o <<32, 98, 32>> \o op2 \o <<32, 99>>

OperatorChains == {Chain(op1, op2) : op1, op2 \in ChainOperators}

ParseSources == ValidPrograms \cup Malformed \cup FurtherTexts \cup OperatorChains

\* the trees a caller hands to generateCode: (a op1 b) op2 c, a op1 (b op2 c),
\* - a, not a, # a and (- a) * b
VarA == Variable(<<97>>)
VarB == Variable(<<98>>)
VarC == Variable(<<99>>)

LeftNested(op1, op2)  == BinaryOperation(op2, BinaryOperation(op1, VarA, VarB), VarC)
RightNested(op1, op2) == BinaryOperation(op1, VarA, BinaryOperation(op2, VarB, VarC))

UnaryOperators == {<<45>>, <<110, 111, 116>>, <<35>>}

Trees ==
  {LeftNested(op1, op2) : op1, op2 \in ChainOperators}
    \cup {RightNested(op1, op2) : op1, op2 \in ChainOperators}
    \cup {UnaryOperation(op, VarA) : op \in UnaryOperators}
    \cup {BinaryOperation(<<42>>, UnaryOperation(<<45>>, VarA), VarB)}

\* obfuscate is called with every pass and every protection off
PlainOptions == Options(FALSE, FALSE, FALSE, FALSE)

ParseInit ==
  /\ \/ /\ source \in ParseSources
        /\ tree = <<>>
        /\ pc = "source"
     \/ /\ source = <<>>
        /\ tree \in {[ast |-> t] : t \in Trees}
        /\ pc = "built"
  /\ printed = <<>>
  /\ reparsed = <<>>
  /\ options = PlainOptions
  /\ obfuscators = <<NewObfuscator(generateSessionId[<<0, 1>>])>>
  /\ entropy = <<0, 0>>
  /\ program = <<>>
  /\ ast = <<>>
  /\ IdleRen
  /\ IdleFlow
  /\ IdleDead
  /\ IdleVM
  /\ IdleEnc
  /\ IdleWeb
  /\ IdleSanitize
  /\ IdleShare
  /\ IdleTests
  /\ IdleOracle
  /\ IdleDispatch
  /\ IdleBytes
  /\ IdleInject
  /\ IdleCache

\* parser.parse(source)
Parse ==
  /\ pc = "source"
  /\ tree' = parse(source)
  /\ pc' = "parsed"
  /\ UNCHANGED <<entropy, program, ast, printed, reparsed, notParse>>

\* parser.generateCode(tree)
GenerateCode ==
  /\ pc \in {"parsed", "built"}
  /\ ~Throws(tree)
  /\ printed' = generateCode(tree.ast)
  /\ pc' = "printed"
  /\ UNCHANGED <<entropy, program, ast, tree, reparsed, notParse>>

\* parser.parse(printed)
Reparse ==
  /\ pc = "printed"
  /\ reparsed' = parse(printed)
  /\ pc' = "reparsed"
  /\ UNCHANGED <<entropy, program, ast, tree, printed, notParse>>

\* Obfuscate(1) is obfuscator.obfuscate(source, options)
ParseNext == Parse \/ GenerateCode \/ Reparse \/ Obfuscate(1)

SpecParse == ParseInit /\ [][ParseNext]_vars

\* C17: parse-print round trip. Every valid program parses, and parsing
\* the text generateCode prints for its tree gives the same tree again
\* (the tree holds no whitespace, comment or parenthesis, so equivalence up
\* to those is equality).
C17_RoundTrip ==
  source \in ValidPrograms =>
    /\ pc \in {"parsed", "printed", "reparsed"} => ~Throws(tree)
    /\ pc = "reparsed" => reparsed = tree

\* the level of an operand: the precedence of its binary operator; unary
\* operations and names bind tighter than every binary operator
Level(node) ==
  IF node.type = "BinaryOperation" THEN precedences(node.operator) ELSE 8

\* .. and ^
RightAssociative == {<<46, 46>>, <<94>>}

\* the parent's precedence is strictly higher than the operand's, or equal
\* with the opposite associativity on that side
OperandWrapped(parent, operand, side) ==
  \/ precedences(parent.operator) > Level(operand)
  \/ /\ precedences(parent.operator) = Level(operand)
     /\ (side = "left") = (parent.operator \in RightAssociative)

NeedsParentheses(node) ==
  /\ node.type = "BinaryOperation"
  /\ \/ OperandWrapped(node, node.left, "left")
     \/ OperandWrapped(node, node.right, "right")

\* the block parse gives for a text that is one expression
Expression(node) == [ast |-> Block(<<ExpressionStatement(node)>>)]

\* C18: printer parenthesization. For a Binary/Unary tree, the printed text
\* has parentheses if and only if an operand needs them by the rule, and the
\* printed expression parses to the same tree.
C18_Parenthesized ==
  (source = <<>> /\ pc = "reparsed") =>
    /\ Includes(printed, <<40>>) <=> NeedsParentheses(tree.ast)
    /\ reparsed = Expression(tree.ast)

\* the tree of a op1 b op2 c by the precedence levels, .. and ^ grouping to
\* the right and every other operator to the left
Grouped(op1, op2) ==
  IF \/ precedences(op2) > precedences(op1)
     \/ (precedences(op2) = precedences(op1) /\ op1 \in RightAssociative)
  THEN RightNested(op1, op2)
  ELSE LeftNested(op1, op2)

\* C19: parseBinaryExpression builds the tree of the precedence levels
\* or < and < comparisons < .. < + - < * / % < ^, with .. and ^
\* right-associative and every other operator left-associative.
C19_PrecedenceTree ==
  \A op1, op2 \in ChainOperators :
    (pc = "parsed" /\ source = Chain(op1, op2)) =>
      tree = Expression(Grouped(op1, op2))

\* a ParseError {expected, got, offset}
IsParseError(r) ==
  /\ Throws(r)
  /\ r.thrown.name = "ParseError"
  /\ {"expected", "got", "offset"} \subseteq DOMAIN r.thrown

\* C20: an input with an unexpected token makes obfuscation fail with a
\* ParseError that carries expected, got and the offset of the offending
\* token; 'local =' fails with a ParseError at offset 6.
C20_ParseErrorRaised ==
  /\ (source \in Malformed /\ obfuscators[1].result # <<>>) =>
       IsParseError(obfuscators[1].result)
  /\ (source = LocalEquals /\ pc = "parsed") =>
       (IsParseError(tree) /\ tree.thrown.offset = 6)

\* ------------------------------------------------------------------------
\* SecurityMiddleware.sanitizeInput on a text
\* ------------------------------------------------------------------------

IsHex(c)   == IsDigit(c) \/ c \in 65..70 \/ c \in 97..102     \* [0-9a-f], i
IsOctal(c) == c \in 48..55                                    \* [0-7]

\* [\r\n]+ taken greedily from i
RECURSIVE BreaksEnd(_, _)
BreaksEnd(text, i) ==
  IF CharAt(text, i) \in {10, 13} THEN BreaksEnd(text, i + 1) ELSE i - 1

\* [0-7]{1,3} taken greedily from i
OctalEnd(text, i) ==
  IF ~IsOctal(CharAt(text, i)) THEN i - 1
  ELSE IF ~IsOctal(CharAt(text, i + 1)) THEN i
  ELSE IF ~IsOctal(CharAt(text, i + 2)) THEN i + 1
  ELSE i + 2

\* The position of the last unit of the match of dangerousPatterns[k] that
\* starts at i, or 0:  \\x[0-9a-f]{2}   \\u[0-9a-f]{4}   \\[0-7]{1,3}
\* \\?[\r\n]+   \\?['"`]
DangerousEnd(k, text, i) ==
  CASE k = 1 ->
         IF /\ CharAt(text, i) = 92
            /\ CharAt(text, i + 1) \in {120, 88}
            /\ IsHex(CharAt(text, i + 2))
            /\ IsHex(CharAt(text, i + 3))
         THEN i + 3 ELSE 0
    [] k = 2 ->
         IF /\ CharAt(text, i) = 92
            /\ CharAt(text, i + 1) \in {117, 85}
            /\ \A d \in 2..5 : IsHex(CharAt(text, i + d))
         THEN i + 5 ELSE 0
    [] k = 3 ->
         IF CharAt(text, i) = 92 /\ IsOctal(CharAt(text, i + 1))
         THEN OctalEnd(text, i + 1) ELSE 0
    [] k = 4 ->
         IF CharAt(text, i) = 92 /\ CharAt(text, i + 1) \in {10, 13}
         THEN BreaksEnd(text, i + 1)
         ELSE IF CharAt(text, i) \in {10, 13} THEN BreaksEnd(text, i)
         ELSE 0
    [] k = 5 ->
         IF CharAt(text, i) = 92 /\ CharAt(text, i + 1) \in {39, 34, 96}
         THEN i + 1
         ELSE IF CharAt(text, i) \in {39, 34, 96} THEN i
         ELSE 0

\* text.replace(dangerousPatterns[k], '') from position i on
RECURSIVE Replaced(_, _, _)
Replaced(k, text, i) ==
  IF i > Len(text) THEN <<>>
  ELSE IF DangerousEnd(k, text, i) # 0
  THEN Replaced(k, text, DangerousEnd(k, text, i) + 1)
  ELSE <<text[i]>> \o Replaced(k, text, i + 1)

\* the loop over the five patterns
RECURSIVE ReplacedAll(_, _)
ReplacedAll(k, text) ==
  IF k > 5 THEN text ELSE ReplacedAll(k + 1, Replaced(k, text, 1))

Truncated(text) ==
  IF Len(text) > MaxSanitized THEN SubSeq(text, 1, MaxSanitized) ELSE text

sanitizeText(input) == Truncated(ReplacedAll(1, input))

\* the inputs: every text of up to three units over  \ x 4 LF space '
\* and the texts  \x41  \u0041  a CR LF b  -- it's LF x = 1
\* x = 1 -- note LF y = 2   and   s = "a" -- "b"
SanitizeUnits == {92, 120, 52, 10, 32, 39}

SanitizeInputs ==
  UNION {[1..n -> SanitizeUnits] : n \in 1..3}
    \cup {<<92, 120, 52, 49>>, <<92, 117, 48, 48, 52, 49>>, <<97, 13, 10, 98>>, <<45, 45, 32, 105, 116, 39, 115, 10, 120, 32, 61, 32, 49>>,
          <<120, 32, 61, 32, 49, 32, 45, 45, 32, 110, 111, 116, 101, 10, 121, 32, 61, 32, 50>>, <<115, 32, 61, 32, 34, 97, 34, 32, 45, 45, 32, 34, 98, 34>>}

SanitizeInit ==
  /\ source \in SanitizeInputs
  /\ sanitized = <<>>
  /\ pc = "input"
  /\ options = <<>>
  /\ obfuscators = <<>>
  /\ entropy = <<0, 0>>
  /\ program = <<>>
  /\ ast = <<>>
  /\ IdleRen
  /\ IdleFlow
  /\ IdleDead
  /\ IdleVM
  /\ IdleEnc
  /\ IdleWeb
  /\ IdleParse
  /\ IdleShare
  /\ IdleTests
  /\ IdleOracle
  /\ IdleDispatch
  /\ IdleBytes
  /\ IdleInject
  /\ IdleCache

\* securityMiddleware.sanitizeInput(source)
SanitizeInput ==
  /\ pc = "input"
  /\ sanitized' = sanitizeText(source)
  /\ pc' = "sanitized"
  /\ UNCHANGED <<entropy, program, ast, notSanitize>>

SanitizeNext == SanitizeInput

SpecSanitize == SanitizeInit /\ [][SanitizeNext]_vars

\* the whitespace of a text, in order, and its comments
IsSpace(c) == c \in WhiteSpace

WhitespaceOf(text) == SelectSeq(text, IsSpace)

CommentsIn(text) ==
  {tokenize(text)[i].value :
     i \in {j \in DOMAIN tokenize(text) : tokenize(text)[j].type = "comment"}}

\* C21: sanitizeInput removes escape sequences only: every whitespace
\* character of the input, newlines included, is still in the output, in
\* order, and so is every comment.
C21_WhitespaceAndCommentsKept ==
  pc = "sanitized" =>
    /\ WhitespaceOf(sanitized) = WhitespaceOf(source)
    /\ \A comment \in CommentsIn(source) : Includes(sanitized, comment)

\* ------------------------------------------------------------------------
\* Concurrent requests on the router's obfuscator
\* ------------------------------------------------------------------------

\* routes.js creates one Obfuscator when the module is loaded and every
\* handler calls obfuscate on it: obfuscators holds that one object. A
\* handler runs up to its await of obfuscate(...) in one step: obfuscate has
\* no await, so the call runs to its return before any other handler runs.
\* The requests: 1 is a POST /obfuscate, 2 and 3 are the files of one batch.
Handlers == 1..3

\* who wrote a field: 0 is the constructor, run when the module was loaded
ModuleLoad == [seed |-> 0, state |-> 0, sessionId |-> 0]

Read(reader, field, writer) ==
  [reader |-> reader, field |-> field, writer |-> writer]

\* the seeds generateSeed() returns
SessionSeeds == {<<0, 42>>, <<32768, 7>>}

ShareInit ==
  /\ obfuscators = <<NewObfuscator(generateSessionId[<<0, 1>>])>>
  /\ source \in Sources
  /\ options = PlainOptions
  /\ handlers = [r \in Handlers |->
                   [pc |-> "received", oracle |-> 0, promise |-> <<>>]]
  /\ reads = {}
  /\ writers = ModuleLoad
  /\ pc = "loaded"
  /\ entropy = <<0, 0>>
  /\ program = <<>>
  /\ ast = <<>>
  /\ IdleRen
  /\ IdleFlow
  /\ IdleDead
  /\ IdleVM
  /\ IdleEnc
  /\ IdleWeb
  /\ IdleParse
  /\ IdleSanitize
  /\ IdleTests
  /\ IdleOracle
  /\ IdleDispatch
  /\ IdleBytes
  /\ IdleInject
  /\ IdleCache

\* the handler of request r up to `await obfuscator.obfuscate(code, options)`:
\* obfuscate reads this.sessionId for the header, setSeed writes seed and
\* state, and every random() reads and writes state
Called(r, sessionSeed, done) ==
  /\ obfuscators' = <<done>>
  /\ handlers' = [handlers EXCEPT
                    ![r] = [pc |-> "awaiting", oracle |-> 1,
                            promise |-> done.result]]
  /\ reads' = reads
       \cup {Read(r, "sessionId", writers.sessionId)}
       \cup (IF done.entropy # setSeed(sessionSeed)
             THEN {Read(r, "state", r)} ELSE {})
  /\ writers' = [writers EXCEPT !.seed = r, !.state = r]

CallObfuscate(r) ==
  /\ handlers[r].pc = "received"
  /\ \E sessionSeed \in SessionSeeds :
       Called(r, sessionSeed,
              obfuscate(obfuscators[1], source, options, sessionSeed))
  /\ UNCHANGED <<entropy, pc, program, ast, source, options, renVars, flowVars,
                 deadVars, vmVars, encVars, webVars, parseVars, sanitizeVars,
                 testsVars,
                 oracleVars,
                 dispatchVars,
                 bytesVars,
                 injectVars,
                 cacheVars>>

\* the handler after the await: it answers with the value of its promise
Resume(r) ==
  /\ handlers[r].pc = "awaiting"
  /\ handlers' = [handlers EXCEPT ![r].pc = "answered"]
  /\ UNCHANGED <<entropy, pc, program, ast, obfVars, reads, writers, renVars,
                 flowVars, deadVars, vmVars, encVars, webVars, parseVars,
                 sanitizeVars,
                 testsVars,
                 oracleVars,
                 dispatchVars,
                 bytesVars,
                 injectVars,
                 cacheVars>>

ShareNext == \E r \in Handlers : CallObfuscate(r) \/ Resume(r)

SpecShare == ShareInit /\ [][ShareNext]_vars

\* no field of the oracle that one request wrote is read by another
NoCrossRead ==
  \A read \in reads : read.writer \in {0, read.reader}

\* C22: request isolation. Each request (each file of a batch too) uses an
\* oracle of its own, and no oracle state written while serving one request
\* is read while serving another.
C22_RequestIsolation ==
  /\ \A r, q \in Handlers :
       (r # q /\ handlers[r].oracle # 0 /\ handlers[q].oracle # 0) =>
         handlers[r].oracle # handlers[q].oracle
  /\ NoCrossRead

\* ------------------------------------------------------------------------
\* runTests(obfuscator)
\* ------------------------------------------------------------------------

\* testVectors.simple, testVectors.functions and testVectors.controlFlow, the
\* code of the first three test cases
VectorSimple ==
  <<10, 108, 111, 99, 97, 108, 32, 120, 32, 61, 32, 49, 48, 10, 108, 111, 99,
    97, 108, 32, 121, 32, 61, 32, 50, 48, 10, 108, 111, 99, 97, 108, 32, 115,
    117, 109, 32, 61, 32, 120, 32, 43, 32, 121, 10, 112, 114, 105, 110, 116,
    40, 115, 117, 109, 41, 10>>

VectorFunctions ==
  <<10, 102, 117, 110, 99, 116, 105, 111, 110, 32, 97, 100, 100, 40, 97, 44,
    32, 98, 41, 10, 32, 32, 114, 101, 116, 117, 114, 110, 32, 97, 32, 43, 32,
    98, 10, 101, 110, 100, 10, 10, 102, 117, 110, 99, 116, 105, 111, 110, 32,
    109, 117, 108, 116, 105, 112, 108, 121, 40, 97, 44, 32, 98, 41, 10, 32,
    32, 114, 101, 116, 117, 114, 110, 32, 97, 32, 42, 32, 98, 10, 101, 110,
    100, 10, 10, 108, 111, 99, 97, 108, 32, 114, 101, 115, 117, 108, 116, 32,
    61, 32, 97, 100, 100, 40, 53, 44, 32, 51, 41, 32, 42, 32, 109, 117, 108,
    116, 105, 112, 108, 121, 40, 50, 44, 32, 52, 41, 10, 112, 114, 105, 110,
    116, 40, 114, 101, 115, 117, 108, 116, 41, 10>>

VectorControlFlow ==
  <<10, 108, 111, 99, 97, 108, 32, 115, 99, 111, 114, 101, 32, 61, 32, 56,
    53, 10, 10, 105, 102, 32, 115, 99, 111, 114, 101, 32, 62, 61, 32, 57, 48,
    32, 116, 104, 101, 110, 10, 32, 32, 112, 114, 105, 110, 116, 40, 34, 65,
    34, 41, 10, 101, 108, 115, 101, 105, 102, 32, 115, 99, 111, 114, 101, 32,
    62, 61, 32, 56, 48, 32, 116, 104, 101, 110, 10, 32, 32, 112, 114, 105,
    110, 116, 40, 34, 66, 34, 41, 10, 101, 108, 115, 101, 105, 102, 32, 115,
    99, 111, 114, 101, 32, 62, 61, 32, 55, 48, 32, 116, 104, 101, 110, 10,
    32, 32, 112, 114, 105, 110, 116, 40, 34, 67, 34, 41, 10, 101, 108, 115,
    101, 10, 32, 32, 112, 114, 105, 110, 116, 40, 34, 70, 34, 41, 10, 101,
    110, 100, 10, 10, 102, 111, 114, 32, 105, 32, 61, 32, 49, 44, 32, 49, 48,
    32, 100, 111, 10, 32, 32, 112, 114, 105, 110, 116, 40, 34, 73, 116, 101,
    114, 97, 116, 105, 111, 110, 58, 32, 34, 32, 46, 46, 32, 105, 41, 10,
    101, 110, 100, 10, 10, 108, 111, 99, 97, 108, 32, 105, 32, 61, 32, 49,
    10, 119, 104, 105, 108, 101, 32, 105, 32, 60, 61, 32, 53, 32, 100, 111,
    10, 32, 32, 112, 114, 105, 110, 116, 40, 34, 87, 104, 105, 108, 101, 32,
    108, 111, 111, 112, 58, 32, 34, 32, 46, 46, 32, 105, 41, 10, 32, 32, 105,
    32, 61, 32, 105, 32, 43, 32, 49, 10, 101, 110, 100, 10>>

testCases == <<VectorSimple, VectorFunctions, VectorControlFlow>>

\* {obfuscationLevel: 10, securityProfile: 'military'}: no key of a pass or
\* of a protection is set
TestOptions == [PlainOptions EXCEPT !.securityProfile = <<109, 105, 108, 105, 116, 97, 114, 121>>]

\* obfuscate is an async function: the call runs its body, which has no
\* await, and hands back a promise of the value the body returned. A promise
\* has the properties then, catch and finally and no other.
Promise(value) == [then |-> value, catch |-> <<>>, finally |-> <<>>]

\* Cannot read properties of undefined (reading 'length')
NoLength ==
  <<67, 97, 110, 110, 111, 116, 32, 114, 101, 97, 100, 32, 112, 114, 111, 112, 101, 114, 116, 105, 101, 115, 32, 111, 102, 32, 117, 110, 100, 101, 102, 105, 110, 101, 100, 32, 40, 114, 101, 97, 100, 105, 110, 103, 32, 39, 108, 101, 110, 103, 116, 104, 39, 41>>

\* the header validateObfuscation looks for
HeaderWords == <<79, 98, 102, 117, 115, 99, 97, 116, 101, 100, 32, 85, 115, 105, 110, 103, 32, 67, 101, 108, 101, 115, 116, 105, 97, 108, 32, 79, 98, 102, 117, 115, 99, 97, 116, 111, 114>>

\* the body of the loop for the value obfuscate handed back: the try block
\* reads result.obfuscatedCode.length first; the TypeError of a read on
\* undefined is caught and recorded
TestResult(result) ==
  IF "obfuscatedCode" \notin DOMAIN result
  THEN [success |-> FALSE, error |-> NoLength]
  ELSE [success |-> TRUE,
        obfuscatedSize |-> Len(result.obfuscatedCode),
        checksumValid |-> "checksum" \in DOMAIN result,
        hasHeader |-> Includes(result.obfuscatedCode, HeaderWords)]

TestsInit ==
  /\ \E seed \in ConstructorSeeds :
       obfuscators = <<NewObfuscator(generateSessionId[seed])>>
  /\ results = <<>>
  /\ source = <<>>
  /\ options = TestOptions
  /\ pc = "testing"
  /\ entropy = <<0, 0>>
  /\ program = <<>>
  /\ ast = <<>>
  /\ IdleRen
  /\ IdleFlow
  /\ IdleDead
  /\ IdleVM
  /\ IdleEnc
  /\ IdleWeb
  /\ IdleParse
  /\ IdleSanitize
  /\ IdleShare
  /\ IdleOracle
  /\ IdleDispatch
  /\ IdleBytes
  /\ IdleInject
  /\ IdleCache

\* the seeds generateSeed() returns in the calls of runTests
TestSeeds == {0, 2, 255, 32768, 65535} \X {1, 7, 42, 64500}

\* one turn of the loop of runTests
Tested(done) ==
  /\ obfuscators' = <<done>>
  /\ results' = Append(results, TestResult(Promise(done.result)))

RunTest ==
  /\ Len(results) < Len(testCases)
  /\ \E sessionSeed \in TestSeeds :
       Tested(obfuscate(obfuscators[1], testCases[Len(results) + 1], options,
                        sessionSeed))
  /\ UNCHANGED <<entropy, pc, program, ast, source, options, renVars, flowVars,
                 deadVars, vmVars, encVars, webVars, parseVars, sanitizeVars,
                 shareVars,
                 oracleVars,
                 dispatchVars,
                 bytesVars,
                 injectVars,
                 cacheVars>>

TestsNext == RunTest

SpecTests == TestsInit /\ [][TestsNext]_vars

\* C23: called as runTests calls it, obfuscate hands back a result whose
\* obfuscatedCode holds the header and whose checksum is defined, and
\* runTests records success: true for every test case.
C23_TestsSucceed ==
  \A i \in DOMAIN results :
    /\ results[i].success
    /\ results[i].hasHeader
    /\ results[i].checksumValid

\* ------------------------------------------------------------------------
\* The oracle alone: setSeed, random, randomInt and randomChoice called in
\* any order on one EntropyGenerator
\* ------------------------------------------------------------------------

MaxDraws == 3          \* calls of random() followed after one setSeed

\* seeds passed to setSeed: those of the engines' runs, the seed whose first
\* draw is the largest value random() returns (0xFFFFFFFD / 0xFFFFFFFF), the
\* seed that step one of random() turns into 0xFFFFFFFF, and the seed whose
\* state after step one is the word that x ^ (x >>> 17) would turn into the
\* preimage of 0xFFFFFFFF under step three
OracleSeeds ==
  Seeds \union {<<47879, 63157>>, <<64512, 8191>>, <<24172, 64743>>}

\* the arguments of randomInt at the call sites of the engines, and some
\* around zero
Ranges == {<<0, 0>>, <<0, 1>>, <<0, 2>>, <<3, 8>>, <<1, 255>>, <<100, 999>>,
           <<-5, 5>>}

Arrays == {<<<<97>>>>, grammars[1].prefix, grammars[2].suffix}

Invocation(method, min, max, arr, v) ==
  [method |-> method, min |-> min, max |-> max, arr |-> arr, v |-> v]

OracleInit ==
  /\ entropy \in Seeds
  /\ invoked = Invocation("constructor", 0, 0, <<>>, entropy)
  /\ draws = 0
  /\ pc = "oracle"
  /\ program = <<>>
  /\ ast = <<>>
  /\ IdleRen
  /\ IdleFlow
  /\ IdleDead
  /\ IdleVM
  /\ IdleEnc
  /\ IdleObf
  /\ IdleWeb
  /\ IdleParse
  /\ IdleSanitize
  /\ IdleShare
  /\ IdleTests
  /\ IdleDispatch
  /\ IdleBytes
  /\ IdleInject
  /\ IdleCache

\* setSeed(seed)
SetSeed ==
  /\ \E seed \in OracleSeeds :
       /\ entropy' = seed
       /\ invoked' = Invocation("setSeed", 0, 0, <<>>, seed)
  /\ draws' = 0
  /\ UNCHANGED <<pc, program, ast, notOracle>>

Answered(call, s) ==
  /\ draws < MaxDraws
  /\ entropy' = s
  /\ invoked' = call
  /\ draws' = draws + 1
  /\ UNCHANGED <<pc, program, ast, notOracle>>

\* random()
Random ==
  Answered(Invocation("random", 0, 0, <<>>, random[entropy].v), random[entropy].s)

\* randomInt(min, max), min <= max
RandomInt ==
  \E range \in Ranges :
    Answered(Invocation("randomInt", range[1], range[2], <<>>,
                  randomInt[entropy, range[1], range[2]].v),
             randomInt[entropy, range[1], range[2]].s)

\* randomChoice(arr), arr not empty
RandomChoice ==
  \E arr \in Arrays :
    Answered(Invocation("randomChoice", 0, 0, arr, randomChoice(entropy, arr).v),
             randomChoice(entropy, arr).s)

OracleNext == SetSeed \/ Random \/ RandomInt \/ RandomChoice

SpecOracle == OracleInit /\ [][OracleNext]_vars

\* C24: whatever the seed and however many calls went before, random() does
\* not return 1 (its numerator is never 0xFFFFFFFF), randomInt(min, max)
\* returns an integer of min..max, and randomChoice(arr) returns an element
\* of arr.
C24_RandomIntInRange ==
  /\ invoked.method = "random" => invoked.v # <<65535, 65535>>
  /\ invoked.method = "randomInt" => invoked.v \in invoked.min..invoked.max
  /\ invoked.method = "randomChoice" =>
       \E i \in DOMAIN invoked.arr : invoked.arr[i] = invoked.v

\* randomInt returns max itself, after earlier calls
C24_MaxReturned ==
  /\ invoked.method = "randomInt"
  /\ invoked.min < invoked.max
  /\ invoked.v = invoked.max
  /\ draws > 1

\* C30: after setSeed with a seed other than 0 the state of the oracle never
\* becomes 0, however many times random() is called.
C30_StateNonzero == entropy # <<0, 0>>

\* ------------------------------------------------------------------------
\* The dispatcher of flattenControlFlow, run as the Luau it is emitted as
\* ------------------------------------------------------------------------

MaxSteps == 5          \* turns of the emitted while loop that are followed

\* local y = 2 x = x + 1
FlowPairBlock == Node("block", <<S_local, S_incr>>)
\* local y = 2 x = x + 1 print(x) print(x)
FlowLongBlock == Node("block", <<S_local, S_incr, S_print, S_print>>)

DispatchPrograms == {FlowPairBlock, FlowPlainBlock, FlowLongBlock}

\* the seeds of the engines' runs, and two after which generateNextState draws
\* the first pattern for every case
DispatchSeeds == Seeds \union {<<0, 20>>, <<0, 37>>}

DispatchInit ==
  /\ entropy \in DispatchSeeds
  /\ pc = "parsed"
  /\ program \in DispatchPrograms
  /\ ast = program
  /\ predicateCount = 0
  /\ luaState = 0
  /\ executed = <<>>
  /\ IdleRen
  /\ IdleDead
  /\ IdleVM
  /\ IdleEnc
  /\ IdleObf
  /\ IdleWeb
  /\ IdleParse
  /\ IdleSanitize
  /\ IdleShare
  /\ IdleTests
  /\ IdleOracle
  /\ IdleBytes
  /\ IdleInject
  /\ IdleCache

\* the table of cases of the dispatcher that replaced the children
DispatchTable == ast.children[1].code.cases

\* the values the text of generateNextState can take when the script runs:
\*   0  current + 2 as a numeral
\*   1  math.random(1, total)
\*   2  (current % total) as a numeral, + 1
\*   3  bit32.bxor(current, key) % total + 1
NextStates(next) ==
  CASE next.pattern = 0 -> {next.current + 2}
    [] next.pattern = 1 -> 1..next.total
    [] next.pattern = 2 -> {(next.current % next.total) + 1}
    [] next.pattern = 3 -> {(BitXor(next.current, next.key) % next.total) + 1}

\* local stateVar = 1, local dispatchVar = { ... }
EnterDispatcher ==
  /\ pc = "flattened"
  /\ luaState' = 1
  /\ executed' = <<>>
  /\ pc' = "looping"
  /\ UNCHANGED <<entropy, program, ast, renVars, flowVars, deadVars, vmVars,
                 encVars, obfVars, webVars, parseVars, sanitizeVars,
                 shareVars, testsVars, oracleVars,
                 bytesVars,
                 injectVars,
                 cacheVars>>

\* one turn of  while stateVar and dispatchVar[stateVar] do
\* dispatchVar[stateVar]() end : the case runs its statement and assigns the
\* next state
CallCase ==
  /\ pc = "looping"
  /\ luaState \in DOMAIN DispatchTable
  /\ Len(executed) < MaxSteps
  /\ executed' = Append(executed, luaState)
  /\ luaState' \in NextStates(DispatchTable[luaState].next)
  /\ UNCHANGED <<entropy, pc, program, ast, renVars, flowVars, deadVars,
                 vmVars, encVars, obfVars, webVars, parseVars, sanitizeVars,
                 shareVars, testsVars, oracleVars,
                 bytesVars,
                 injectVars,
                 cacheVars>>

\* dispatchVar[stateVar] is nil: the loop ends
LeaveLoop ==
  /\ pc = "looping"
  /\ luaState \notin DOMAIN DispatchTable
  /\ pc' = "left"
  /\ UNCHANGED <<entropy, program, ast, renVars, flowVars, deadVars, vmVars,
                 encVars, obfVars, webVars, parseVars, sanitizeVars,
                 shareVars, testsVars, oracleVars, dispatchVars,
                 bytesVars,
                 injectVars,
                 cacheVars>>

DispatchNext == FlattenControlFlow \/ EnterDispatcher \/ CallCase \/ LeaveLoop

SpecDispatch == DispatchInit /\ [][DispatchNext]_vars

\* C25: the dispatcher of a block of n >= 2 statements calls the cases
\* 1, 2, ..., n in this order, each once, and then leaves the loop: the k-th
\* case called is case k, whatever pattern generateNextState drew, and the
\* loop is left only after all n were called.
C25_CasesInOrder ==
  /\ \A k \in DOMAIN executed : executed[k] = k
  /\ pc = "left" => Len(executed) = Len(program.children)

\* ------------------------------------------------------------------------
\* The opcode table of a VirtualMachine and the branches of its dispatcher
\* ------------------------------------------------------------------------

\* oracle states at the construction of the VirtualMachine: one of the
\* engines' runs, and two for which two of the eight draws of generateOpcodes
\* give the same value (CALL and RETURN after 1241, STORE and JUMP after 3184)
OpcodeSeeds == {<<0, 1>>, <<0, 1241>>, <<0, 3184>>}

OpcodeInit ==
  /\ entropy \in OpcodeSeeds
  /\ pc = "new"
  /\ program \in {Node("function", <<>>), Node("block", <<>>)}
  /\ ast = program
  /\ IdleVM
  /\ IdleRen
  /\ IdleFlow
  /\ IdleDead
  /\ IdleEnc
  /\ IdleObf
  /\ IdleWeb
  /\ IdleParse
  /\ IdleSanitize
  /\ IdleShare
  /\ IdleTests
  /\ IdleOracle
  /\ IdleDispatch
  /\ IdleBytes
  /\ IdleInject
  /\ IdleCache

SpecOpcodes == OpcodeInit /\ [][VMNext]_vars

\* the position in the if/elseif chain of the branch taken for op, 0 if none
BranchTaken(dispatch, op) ==
  IF \E i \in 1..8 : dispatch[i].value = op
  THEN CHOOSE i \in 1..8 :
         /\ dispatch[i].value = op
         /\ \A j \in 1..(i - 1) : dispatch[j].value # op
  ELSE 0

\* the encoding of one instruction of the i-th symbolic opcode
EncodedOp(ops, i) ==
  encodeInstructions(ops, <<[op |-> OpNames[i], args |-> <<1, 0>>]>>)[1]

\* C26: the eight opcodes of a VirtualMachine have pairwise distinct values,
\* and the emitted if/elseif chain takes, for the encoding of an instruction
\* of each symbolic opcode, the branch of that opcode.
C26_OwnBranch ==
  /\ pc # "new" =>
       \A i, j \in 1..8 : i # j => opcodes[i] # opcodes[j]
  /\ pc \in {"running", "halted", "error"} =>
       \A i \in 1..8 :
         BranchTaken(emitted.dispatch, ExtractOp(EncodedOp(opcodes, i))) = i

\* ------------------------------------------------------------------------
\* The byte polynomial of the ByteEncryptor and the steps emitted to undo it
\* ------------------------------------------------------------------------

BytesInit ==
  /\ plain \in {<<b>> : b \in 0..255}
  /\ cipher = <<>>
  /\ recovered = <<>>
  /\ pc = "bytes"
  /\ entropy = <<0, 0>>
  /\ program = <<>>
  /\ ast = <<>>
  /\ IdleRen
  /\ IdleFlow
  /\ IdleDead
  /\ IdleVM
  /\ IdleEnc
  /\ IdleObf
  /\ IdleWeb
  /\ IdleParse
  /\ IdleSanitize
  /\ IdleShare
  /\ IdleTests
  /\ IdleOracle
  /\ IdleDispatch
  /\ IdleInject
  /\ IdleCache

\* applyNonLinearTransform(bytes)
ApplyNonLinearTransform ==
  /\ pc = "bytes"
  /\ cipher' = applyNonLinearTransform(plain)
  /\ pc' = "transformed"
  /\ UNCHANGED <<entropy, program, ast, plain, recovered, notBytes>>

\* the multipliers findInverse writes into the text of the decryptor
InverseSteps ==
  [inverses |-> <<findInverse(31), findInverse(13), findInverse(7)>>]

\* the last three assignments to b in the loop of the decryptor
DecoderSteps ==
  /\ pc = "transformed"
  /\ recovered' = [i \in DOMAIN cipher |->
                     Inverse7(InverseSteps,
                       Inverse13(InverseSteps,
                         Inverse31(InverseSteps, cipher[i])))]
  /\ pc' = "recovered"
  /\ UNCHANGED <<entropy, program, ast, plain, cipher, notBytes>>

BytesNext == ApplyNonLinearTransform \/ DecoderSteps

SpecBytes == BytesInit /\ [][BytesNext]_vars

\* C27: the byte map of applyNonLinearTransform is a bijection of 0..255 (no
\* other byte is transformed to the same value), and the three steps of the
\* decoder with findInverse(31), findInverse(13) and findInverse(7) give
\* back the original byte.
C27_ByteBijection ==
  /\ pc = "transformed" =>
       \A b \in 0..255 :
         applyNonLinearTransform(<<b>>) = cipher => <<b>> = plain
  /\ pc = "recovered" => recovered = plain

\* ------------------------------------------------------------------------
\* DeadCodeInjector: generateInjection and inject
\* ------------------------------------------------------------------------

\* the values a generator draws for the holes of its template, in the order
\* the template is filled: an identifier, a number, or a text
Part(name, n) == [name |-> name, n |-> n]
Parts         == [name : Text, n : Int]
PartsDrawn    == [v : Seq(Parts), s : Word32]

PushPart(r, part, s) == [v |-> Append(r.v, part), s |-> s]
IdPushed(r, id)      == PushPart(r, Part(id.v, 0), id.s)
IntPushed(r, n)      == PushPart(r, Part(<<>>, n.v), n.s)
DrawId(r)            == IdPushed(r, generateIdentifier[r.s])
DrawInt(r, min, max) == IntPushed(r, randomInt[r.s, min, max])

\* a hole filled by generateIdentifier() or by randomInt(min, max)
P_id            == [kind |-> "id", min |-> 0, max |-> 0]
P_int(min, max) == [kind |-> "int", min |-> min, max |-> max]
Holes           == [kind : {"id", "int"}, min : Int, max : Int]

HoleFilled(r, hole) ==
  IF hole.kind = "id" THEN DrawId(r) ELSE DrawInt(r, hole.min, hole.max)

Filled[r \in PartsDrawn, holes \in Seq(Holes)] ==
  IF holes = <<>> THEN r ELSE Filled[HoleFilled(r, Head(holes)), Tail(holes)]

NoParts(s) == [v |-> <<>>, s |-> s]

\* the node a generator returns
Injection(t, template, r) ==
  [v |-> [type |-> t, value |-> [template |-> template, parts |-> r.v]],
   s |-> r.s]

\* generateFakeLoop
generateFakeLoop(s) ==
  Injection("block", "fakeLoop",
            Filled[NoParts(s), <<P_id, P_int(10, 100), P_id>>])

\* generateDeadCalculation
generateDeadCalculation(s) ==
  Injection("block", "deadCalculation",
            Filled[NoParts(s), <<P_id, P_id, P_id, P_int(2, 10), P_int(1, 255),
                                 P_int(1, 100)>>])

\* generateMockFunction
generateMockFunction(s) ==
  Injection("function", "mockFunction",
            Filled[NoParts(s), <<P_id, P_id, P_id, P_id, P_id, P_id,
                                 P_int(1, 5), P_id, P_id, P_id, P_id>>])

\* generateStateMutation
generateStateMutation(s) ==
  Injection("block", "stateMutation",
            Filled[NoParts(s), <<P_id, P_id, P_int(1, 100), P_int(1, 10), P_id,
                                 P_int(1, 100), P_id, P_id>>])

\* generateConditionalNoise: the template is filled up to
\* ${this.generateDeadStatement()}; DeadCodeInjector has no method of that
\* name (it is one of ControlFlowObfuscator), so the call raises a TypeError
NotAFunction == <<116, 104, 105, 115, 46, 103, 101, 110, 101, 114, 97, 116, 101, 68, 101, 97, 100, 83, 116, 97, 116, 101, 109, 101, 110, 116, 32, 105, 115, 32, 110, 111, 116, 32, 97, 32, 102, 117, 110, 99, 116, 105, 111, 110>>

Raised(r, name, message) == [v |-> Thrown(name, message), s |-> r.s]

generateConditionalNoise(s) ==
  Raised(Filled[NoParts(s), <<P_id, P_id, P_int(2, 100), P_int(25, 75),
                              P_int(10, 25), P_id, P_id>>],
         <<84, 121, 112, 101, 69, 114, 114, 111, 114>>, NotAFunction)

\* generateTableOperations: randomInt(5, 20) assignments, each with a key
\* (random() > 0.5 ? an identifier : randomInt(1, 100)) and a value
\* (random() > 0.5 ? math.random(), written as the number -1 : an identifier)
Reseeded(r, s) == [r EXCEPT !.s = s]

TableValue(r, u) ==
  IF Above05(u.v) THEN PushPart(r, Part(<<>>, -1), u.s)
  ELSE DrawId(Reseeded(r, u.s))

TableKey(r, u) ==
  IF Above05(u.v) THEN DrawId(Reseeded(r, u.s))
  ELSE DrawInt(Reseeded(r, u.s), 1, 100)

TableKeyed(r) == TableValue(r, random[r.s])

TableOperation(r) == TableKeyed(TableKey(r, random[r.s]))

TableOperations[r \in PartsDrawn, k \in Nat] ==
  IF k = 0 THEN r ELSE TableOperations[TableOperation(r), k - 1]

TableLoop(r) == TableOperations[r, r.v[Len(r.v)].n]

generateTableOperations(s) ==
  Injection("block", "tableOperations",
            TableLoop(Filled[NoParts(s), <<P_id, P_int(5, 20)>>]))

\* generateRandomString: randomInt(5, 20) characters chars[randomInt(0, 61)]
RandomChars ==
  [i \in 1..62 |-> IF i <= 26 THEN 64 + i
                   ELSE IF i <= 52 THEN 70 + i
                   ELSE i - 5]

RandomStringWith(length, st) ==
  [v |-> [i \in 1..length |-> RandomChars[Draw(st, i, 0, 61) + 1]],
   s |-> st[length + 1]]

RandomStringOf(length) ==
  RandomStringWith(length.v, States[length.s, length.v])

generateRandomString[s \in Word32] == RandomStringOf(randomInt[s, 5, 20])

\* generateStringManipulation: randomInt(3, 10) operations; each turn fills
\* the first of the four texts with generateRandomString() and then chooses
\* one of them (the number of the choice stands for the other three)
StringPushed(r, str) == PushPart(r, Part(str.v, 0), str.s)

OperationChosen(r, str, choice) ==
  PushPart(r, IF choice.v = 0 THEN Part(str.v, 0) ELSE Part(<<>>, choice.v),
           choice.s)

OperationWith(r, str) == OperationChosen(r, str, randomInt[str.s, 0, 3])

StringOperations[r \in PartsDrawn, k \in Nat] ==
  IF k = 0 THEN r
  ELSE StringOperations[OperationWith(r, generateRandomString[r.s]), k - 1]

StringLoop(r) ==
  StringOperations[StringPushed(r, generateRandomString[r.s]),
                   r.v[Len(r.v)].n]

generateStringManipulation(s) ==
  Injection("block", "stringManipulation",
            StringLoop(Filled[NoParts(s), <<P_id, P_int(3, 10)>>]))

\* generateMetatableNoise
generateMetatableNoise(s) ==
  Injection("block", "metatableNoise",
            Filled[NoParts(s), <<P_id, P_id, P_id, P_id, P_int(1, 5)>>])

DeadComment == <<45, 45, 32, 100, 101, 97, 100, 32, 99, 111, 100, 101>>

\* generateInjection(type)
generateInjection(type, s) ==
  CASE type = "fakeLoop"           -> generateFakeLoop(s)
    [] type = "deadCalculation"    -> generateDeadCalculation(s)
    [] type = "mockFunction"       -> generateMockFunction(s)
    [] type = "stateMutation"      -> generateStateMutation(s)
    [] type = "conditionalNoise"   -> generateConditionalNoise(s)
    [] type = "tableOperations"    -> generateTableOperations(s)
    [] type = "stringManipulation" -> generateStringManipulation(s)
    [] type = "metatableNoise"     -> generateMetatableNoise(s)
    [] OTHER -> [v |-> [type |-> "comment", value |-> DeadComment], s |-> s]

\* children.splice(position, 0, item)
Splice(children, position, item) ==
  SubSeq(children, 1, position) \o <<item>>
    \o SubSeq(children, position + 1, Len(children))

\* applyInjections(node): the points whose parent is node, in the order they
\* were pushed; a = [node, s, raised]. An error raised by generateInjection
\* ends the loop and leaves the children spliced so far
RECURSIVE ApplyFrom(_, _, _)
Spliced(a, points, i, made) ==
  IF Throws(made.v)
  THEN [node |-> a.node, s |-> made.s, raised |-> made.v]
  ELSE ApplyFrom([a EXCEPT !.node.children =
                    Splice(a.node.children, points[i].position, made.v),
                    !.s = made.s],
                 points, i + 1)

ApplyFrom(a, points, i) ==
  IF i > Len(points) THEN a
  ELSE IF points[i].parent # <<>> THEN ApplyFrom(a, points, i + 1)
  ELSE Spliced(a, points, i, generateInjection(points[i].type, a.s))

applyInjections(node, d) ==
  [points |-> d.points,
   applied |-> ApplyFrom([node |-> node, s |-> d.s, raised |-> <<>>],
                         d.points, 1)]

\* inject(node)
inject(node, d) ==
  applyInjections(node, identifyInjectionPoints(node, <<>>, d))

InjectInit ==
  /\ entropy \in Seeds
  /\ pc = "parsed"
  /\ program \in DeadPrograms
  /\ ast = program
  /\ injectionPoints = <<>>
  /\ injection = <<>>
  /\ IdleRen
  /\ IdleFlow
  /\ IdleVM
  /\ IdleEnc
  /\ IdleObf
  /\ IdleWeb
  /\ IdleParse
  /\ IdleSanitize
  /\ IdleShare
  /\ IdleTests
  /\ IdleOracle
  /\ IdleDispatch
  /\ IdleBytes
  /\ IdleCache

InjectDone(done) ==
  /\ injectionPoints' = done.points
  /\ ast' = done.applied.node
  /\ entropy' = done.applied.s
  /\ injection' = done.applied.raised
  /\ pc' = IF done.applied.raised = <<>> THEN "injected" ELSE "failed"

\* ast.transform(injector.inject.bind(injector)) on a parsed tree
Inject ==
  /\ pc = "parsed"
  /\ InjectDone(inject(ast, [points |-> injectionPoints, s |-> entropy]))
  /\ UNCHANGED <<program, renVars, flowVars, vmVars, encVars, obfVars, webVars,
                 parseVars, sanitizeVars, shareVars, testsVars, oracleVars,
                 dispatchVars, bytesVars,
                 cacheVars>>

GenerateDone(made) ==
  /\ injection' = made.v
  /\ entropy' = made.s

\* generateInjection(type) for a type selectInjectionType returns
GenerateInjection ==
  /\ pc = "parsed"
  /\ \E i \in DOMAIN InjectionTypes :
       GenerateDone(generateInjection(InjectionTypes[i], entropy))
  /\ pc' = "generated"
  /\ UNCHANGED <<program, ast, notInject>>

InjectorNext == Inject \/ GenerateInjection

SpecInject == InjectInit /\ [][InjectorNext]_vars

\* C28: generateInjection returns a statement node, and raises no error, for
\* every type selectInjectionType can return, and inject does not fail on a
\* block.
C28_InjectionReturned ==
  /\ pc = "generated" =>
       /\ ~Throws(injection)
       /\ injection.type \in {"block", "function"}
  /\ pc # "failed"

\* ------------------------------------------------------------------------
\* The response cache: validateRequest, the limiter of /obfuscate and the
\* handler of POST /obfuscate over a sequence of requests
\* ------------------------------------------------------------------------

MaxRequests == 3       \* requests followed

\* the time between two requests, in milliseconds: on both sides of the 100
\* of validateRequest, the 3000 of the limiter, the 5000 and the 30000 of the
\* two cache tests
Delays == {50, 100, 3000, 5000, 30000}

Clients == {1}

\* map.get(key) || other, and map.set(key, value)
Get(map, key, other) == IF key \in DOMAIN map THEN map[key] ELSE other

Put(map, key, value) ==
  [k \in DOMAIN map \cup {key} |-> IF k = key THEN value ELSE map[k]]

\* generateFingerprint(req) and the key `${req.ip}:${endpoint}` of the limiter
Fingerprint(client) == <<"fingerprint", client>>
EndpointKey(client) == <<"/obfuscate", client>>

\* hashRequest(req): the digest of {body, path, method, fingerprint}
hashRequest(client, code) ==
  [body |-> code, path |-> "/obfuscate", method |-> "POST",
   fingerprint |-> Fingerprint(client)]

\* getSecurityLevel(options)
getSecurityLevel(opts) ==
  IF LevelOr(opts, 5) >= 9 THEN "Military Grade"
  ELSE IF LevelOr(opts, 5) >= 7 THEN "Enterprise"
  ELSE IF LevelOr(opts, 5) >= 5 THEN "Professional"
  ELSE IF LevelOr(opts, 5) >= 3 THEN "Standard"
  ELSE "Basic"

\* ((obfuscatedSize / originalSize) * 100).toFixed(2), in hundredths
expansionRatio(result) ==
  (2 * 10000 * result.obfuscatedSize + result.originalSize)
    \div (2 * result.originalSize)

\* the keys of the object passed to cacheResponse, filled from result
CachedFields(result, opts) ==
  [obfuscatedCode |-> result.code, originalSize |-> result.originalSize,
   obfuscatedSize |-> result.obfuscatedSize,
   expansionRatio |-> expansionRatio(result),
   securityLevel |-> getSecurityLevel(opts), checksum |-> result.checksum]

\* the body of a first reply: these keys, the time and the options used
\* (requestId, the report and the performance figures are left out)
ResponseOf(result, opts, now) ==
  [timestamp |-> now, optionsUsed |-> opts] @@ CachedFields(result, opts)

\* cacheResponse(req, response): the entry {timestamp, response}; the entries
\* older than 30 s are deleted once there are more than 1000
Cleaned(cache, now) ==
  IF Cardinality(DOMAIN cache) > 1000
  THEN [k \in {h \in DOMAIN cache : ~(now - cache[h].timestamp > 30000)} |->
          cache[k]]
  ELSE cache

cacheResponse(cache, hash, body, now) ==
  Cleaned(Put(cache, hash, [timestamp |-> now, response |-> body]), now)

\* a reply: the number of the request, the status, the body, the code that
\* sent it, the request hash and the age of the cache entry used
Reply(n, status, body, by, hash, age) ==
  [n |-> n, status |-> status, body |-> body, by |-> by, hash |-> hash,
   age |-> age]

NoBody == [k \in {} |-> 0]

CacheInit ==
  /\ clock = 100000
  /\ requestCache = <<>>
  /\ requestTimestamps = <<>>
  /\ sent = <<>>
  /\ reply = Reply(0, 0, NoBody, "none", <<>>, 0)
  /\ obfuscators = <<NewObfuscator(generateSessionId[<<0, 1>>])>>
  /\ source \in Sources
  /\ options = PlainOptions
  /\ pc = "idle"
  /\ entropy = <<0, 0>>
  /\ program = <<>>
  /\ ast = <<>>
  /\ IdleRen
  /\ IdleFlow
  /\ IdleDead
  /\ IdleVM
  /\ IdleEnc
  /\ IdleWeb
  /\ IdleParse
  /\ IdleSanitize
  /\ IdleShare
  /\ IdleTests
  /\ IdleOracle
  /\ IdleDispatch
  /\ IdleBytes
  /\ IdleInject

\* time passes until the next request arrives
Advance ==
  /\ pc = "idle"
  /\ reply.n < MaxRequests
  /\ \E delay \in Delays : clock' = clock + delay
  /\ pc' = "arrived"
  /\ UNCHANGED <<entropy, program, ast, requestCache, requestTimestamps, sent,
                 reply, notCache>>

\* the reply is sent with nothing obfuscated and nothing cached
Answers(status, body, by, hash, age, timestamps) ==
  /\ reply' = Reply(reply.n + 1, status, body, by, hash, age)
  /\ requestTimestamps' = timestamps
  /\ UNCHANGED <<requestCache, sent, obfuscators>>

\* the handler of POST /obfuscate past the cache test: obfuscate, reply,
\* cacheResponse(req, {timestamp, response: {...}})
Obfuscates(hash, timestamps, done) ==
  /\ obfuscators' = <<done>>
  /\ reply' = Reply(reply.n + 1, 200, ResponseOf(done.result, options, clock),
                    "obfuscate", hash, 0)
  /\ sent' = Put(sent, hash, ResponseOf(done.result, options, clock))
  /\ requestCache' =
       cacheResponse(requestCache, hash,
                     [timestamp |-> clock,
                      response |-> CachedFields(done.result, options)],
                     clock)
  /\ requestTimestamps' = timestamps

\* POST /obfuscate: the request is valid, the cache is asked before the
\* obfuscator
Handles(hash, code, timestamps) ==
  IF sanitizeText(code) = <<>>
  THEN Answers(400, NoBody, "handler", hash, 0, timestamps)
  ELSE IF /\ hash \in DOMAIN requestCache
          /\ clock - requestCache[hash].timestamp < 30000
  THEN Answers(200, [cached |-> TRUE] @@ requestCache[hash].response,
               "handler", hash, clock - requestCache[hash].timestamp,
               timestamps)
  ELSE \E sessionSeed \in SessionSeeds :
         Obfuscates(hash, timestamps,
                    obfuscate(obfuscators[1], sanitizeText(code), options,
                              sessionSeed))

\* the limiter of the endpoint: (1000 / 20) * 60 ms between two requests
Limits(client, hash, code, timestamps) ==
  IF clock - Get(timestamps, EndpointKey(client), 0) < (1000 \div 20) * 60
  THEN Answers(429, NoBody, "limiter", hash, 0, timestamps)
  ELSE Handles(hash, code, Put(timestamps, EndpointKey(client), clock))

\* validateRequest past the test of the timestamp: a cache entry younger
\* than 5 s is the reply
Replays(client, hash, code, timestamps) ==
  IF /\ hash \in DOMAIN requestCache
     /\ clock - requestCache[hash].timestamp < 5000
  THEN Answers(200, requestCache[hash].response, "validateRequest", hash,
               clock - requestCache[hash].timestamp, timestamps)
  ELSE Limits(client, hash, code, timestamps)

Validates(client, hash, code) ==
  IF clock - Get(requestTimestamps, Fingerprint(client), 0) < 100
  THEN Answers(429, NoBody, "validateRequest", hash, 0, requestTimestamps)
  ELSE Replays(client, hash, code,
               Put(requestTimestamps, Fingerprint(client), clock))

\* a JSON request POST /obfuscate {code} of a client, through
\* validateRequest, the limiter and the handler
Post ==
  /\ pc = "arrived"
  /\ \E client \in Clients :
       Validates(client, hashRequest(client, source), source)
  /\ pc' = "idle"
  /\ UNCHANGED <<entropy, program, ast, clock, source, options, renVars,
                 flowVars, deadVars, vmVars, encVars, webVars, parseVars,
                 sanitizeVars, shareVars, testsVars, oracleVars, dispatchVars,
                 bytesVars, injectVars>>

CacheNext == Advance \/ Post

SpecCache == CacheInit /\ [][CacheNext]_vars

CachedKeys ==
  {"obfuscatedCode", "originalSize", "obfuscatedSize", "expansionRatio",
   "securityLevel", "checksum"}

FromCache == reply.status = 200 /\ reply.by \in {"validateRequest", "handler"}

\* C29: a reply taken from the response cache uses an entry younger than
\* 30 s and carries the obfuscatedCode, originalSize, obfuscatedSize,
\* expansionRatio, securityLevel and checksum of the reply first sent for
\* the request.
C29_CachedReplySame ==
  FromCache =>
    /\ reply.age < 30000
    /\ \A k \in CachedKeys :
         /\ k \in DOMAIN reply.body
         /\ reply.body[k] = sent[reply.hash][k]

====
